---- MODULE Spec2Model ----
(***************************************************************************)
(* dsktool: the GPT / MBR partition-table reader and the create / delete   *)
(* mutators, modelled over a small block device.                           *)
(*                                                                         *)
(* The device is a function from LBA to sector.  A sector is a record; its *)
(* "kind" says which on-disk structure its bytes hold (GPT header, GPT     *)
(* entry slot, MBR/EBR sector, user data, all zeros).  Two sectors are     *)
(* byte-identical exactly when the records are equal.  The table headers   *)
(* of the modelled devices declare PartEntrySize = 512, so that one entry  *)
(* slot fills one sector; the code reads every geometry value from the     *)
(* header, as the source does.                                             *)
(***************************************************************************)
EXTENDS Integers, Sequences, FiniteSets, TLC

VARIABLES disk, partitions, prev, last, steps, tui

vars == << disk, partitions, prev, last, steps, tui >>

(***************************************************************************)
(* Bounds of the model.                                                    *)
(***************************************************************************)
NumEntries == 3

DataSectors == 3

MaxOps == 1

\* over a behaviour, the operations' inputs (form fields, partition argument,
\* injected fault, reported device size and mounts) differ from the plain
\* ones in at most MaxEdits places
MaxEdits == 1

\* an injected I/O fault hits one of the first MaxFaultCall reads or writes
MaxFaultCall == 5

(***************************************************************************)
(* Program constants.                                                      *)
(***************************************************************************)
SectorSize == 512

GPTHeaderLBA == 1

MinHeaderSize == 92

MBRSignature == 43605

MBRSlots == 4

PartitionNameBytes == 72

MaxHops == 128

(***************************************************************************)
(* Layout of the modelled devices (values the headers carry).              *)
(***************************************************************************)
PrimaryEntryLBA == GPTHeaderLBA + 1

FirstUsable == PrimaryEntryLBA + NumEntries

LastUsable == FirstUsable + DataSectors - 1

BackupEntryLBA == LastUsable + 1

BackupHeaderLBA == BackupEntryLBA + NumEntries

DiskSectors == BackupHeaderLBA + 1

LBAs == 0 .. (DiskSectors - 1)

Min(a, b) == IF a < b THEN a ELSE b

Max(a, b) == IF a > b THEN a ELSE b

(***************************************************************************)
(* GUID / name codec.  A string is a sequence of one-character strings, a  *)
(* GUID a sequence of 16 byte values.                                      *)
(***************************************************************************)
UpperHex ==
  << "0", "1", "2", "3", "4", "5", "6", "7", "8", "9", "A", "B", "C", "D", "E", "F" >>

LowerHex ==
  << "0", "1", "2", "3", "4", "5", "6", "7", "8", "9", "a", "b", "c", "d", "e", "f" >>

IsHex(c) == \E i \in 1..16 : UpperHex[i] = c \/ LowerHex[i] = c

\* Sscanf("%02x"): the value of one hex digit, either case
HexVal(c) == (CHOOSE i \in 1..16 : UpperHex[i] = c \/ LowerHex[i] = c) - 1

LinuxFilesystemGUID ==
  << "0", "F", "C", "6", "3", "D", "A", "F", "-", "8", "4", "8", "3", "-", "4", "7", "7", "2", "-", "8", "E", "7", "9", "-", "3", "D", "6", "9", "D", "8", "4", "7", "7", "D", "E", "4" >>

LinuxSwapGUID ==
  << "0", "6", "5", "7", "F", "D", "6", "D", "-", "A", "4", "A", "B", "-", "4", "3", "C", "4", "-", "8", "4", "E", "5", "-", "0", "9", "3", "3", "C", "8", "4", "B", "4", "F", "4", "F" >>

EFISystemGUID ==
  << "C", "1", "2", "A", "7", "3", "2", "8", "-", "F", "8", "1", "F", "-", "1", "1", "D", "2", "-", "B", "A", "4", "B", "-", "0", "0", "A", "0", "C", "9", "3", "E", "C", "9", "3", "B" >>

WindowsBasicDataGUID ==
  << "E", "B", "D", "0", "A", "0", "A", "2", "-", "B", "9", "E", "5", "-", "4", "4", "3", "3", "-", "8", "7", "C", "0", "-", "6", "8", "B", "6", "B", "7", "2", "6", "9", "9", "C", "7" >>

MicrosoftReservedGUID ==
  << "E", "3", "C", "9", "E", "3", "1", "6", "-", "0", "B", "5", "C", "-", "4", "D", "B", "8", "-", "8", "1", "7", "D", "-", "F", "9", "2", "D", "F", "0", "0", "2", "1", "5", "A", "E" >>

\* strings.ReplaceAll(s, "-", "")
RECURSIVE RemoveDashes(_)
RemoveDashes(s) ==
  IF Len(s) = 0 THEN << >>
  ELSE IF Head(s) = "-" THEN RemoveDashes(Tail(s))
       ELSE << Head(s) >> \o RemoveDashes(Tail(s))

\* Sscanf(pair, "%02x", &b): an unparsable pair leaves b = 0
ScanHexByte(hi, lo) ==
  IF IsHex(hi) /\ IsHex(lo) THEN HexVal(hi) * 16 + HexVal(lo)
  ELSE IF IsHex(hi) THEN HexVal(hi)
  ELSE 0

RECURSIVE parseGUID(_)
parseGUID(guidStr) ==
  LET s == RemoveDashes(guidStr)
  IN IF Len(s) # 32 THEN parseGUID(LinuxFilesystemGUID)
     ELSE [i \in 1..16 |-> ScanHexByte(s[2 * i - 1], s[2 * i])]

TypeNames ==
  { "Linux Filesystem", "Linux Swap", "EFI System", "Windows Basic Data",
    "Microsoft Reserved", "Extended Partition" }

\* the one element of a singleton set
Only(S) == CHOOSE x \in S : TRUE

\* guidMap[typeName], "Linux Filesystem" standing in for a name it lacks
guidMap(typeName) ==
  CASE typeName = "Linux Filesystem" -> LinuxFilesystemGUID
    [] typeName = "Linux Swap" -> LinuxSwapGUID
    [] typeName = "EFI System" -> EFISystemGUID
    [] typeName = "Windows Basic Data" -> WindowsBasicDataGUID
    [] typeName = "Microsoft Reserved" -> MicrosoftReservedGUID
    [] OTHER -> LinuxFilesystemGUID

getTypeGUIDFromName(typeName) ==
  Only({ parseGUID(guidStr) : guidStr \in { guidMap(typeName) } })

getMBRTypeFromName(typeName) ==
  CASE typeName = "Linux Filesystem" -> 131
    [] typeName = "Linux Swap" -> 130
    [] typeName = "EFI System" -> 239
    [] typeName = "Windows Basic Data" -> 7
    [] typeName = "Microsoft Reserved" -> 39
    [] typeName = "Extended Partition" -> 5
    [] OTHER -> 131

generateGUID == [i \in 1..16 |-> i - 1]

\* %02x of one byte
HexByte(b) == << LowerHex[(b \div 16) + 1], LowerHex[(b % 16) + 1] >>

guidToString(b) ==
  IF Len(b) < 16 THEN << >>
  ELSE HexByte(b[4]) \o HexByte(b[3]) \o HexByte(b[2]) \o HexByte(b[1]) \o << "-" >>
       \o HexByte(b[6]) \o HexByte(b[5]) \o << "-" >>
       \o HexByte(b[8]) \o HexByte(b[7]) \o << "-" >>
       \o HexByte(b[9]) \o HexByte(b[10]) \o << "-" >>
       \o HexByte(b[11]) \o HexByte(b[12]) \o HexByte(b[13])
       \o HexByte(b[14]) \o HexByte(b[15]) \o HexByte(b[16])

\* a partition name is a sequence of code points below 2^16
RECURSIVE encodeUTF16LE(_)
encodeUTF16LE(s) ==
  IF Len(s) = 0 THEN << >>
  ELSE << Head(s) % 256, Head(s) \div 256 >> \o encodeUTF16LE(Tail(s))

RECURSIVE TrimZeros(_)
TrimZeros(b) ==
  IF Len(b) = 0 THEN << >>
  ELSE IF b[Len(b)] = 0 THEN TrimZeros(SubSeq(b, 1, Len(b) - 1))
       ELSE b

\* copy(partition.PartitionName[:], nameBytes) into the zeroed 72-byte field.
\* The field is kept without its trailing zero bytes.
NameField(nameBytes) ==
  TrimZeros(SubSeq(nameBytes, 1, Min(Len(nameBytes), PartitionNameBytes)))

RECURSIVE decodeUnits(_)
decodeUnits(b) ==
  IF Len(b) = 0 THEN << >>
  ELSE LET lo == b[1]
           hi == IF Len(b) >= 2 THEN b[2] ELSE 0
           v == lo + 256 * hi
       IN IF v = 0 THEN << >>
          ELSE << v >> \o decodeUnits(IF Len(b) >= 2 THEN SubSeq(b, 3, Len(b)) ELSE << >>)

\* decodeUTF16LE over the 72-byte field (trailing zeros implicit)
decodeUTF16LE(b) == decodeUnits(b)

isAllZero(b) == \A i \in 1..Len(b) : b[i] = 0

ZeroGUID == [i \in 1..16 |-> 0]

isExtendedType(t) == t \in { 5, 15, 133 }

(***************************************************************************)
(* crc32.ChecksumIEEE, as a position-weighted checksum over the byte /     *)
(* field values.                                                           *)
(***************************************************************************)
RECURSIVE ChecksumRange(_, _, _)
ChecksumRange(b, lo, hi) ==
  IF lo > hi THEN 0
  ELSE IF lo = hi THEN (lo * (b[lo] + 1)) % 16777213
  ELSE LET mid == (lo + hi) \div 2
       IN (ChecksumRange(b, lo, mid) + ChecksumRange(b, mid + 1, hi)) % 16777213

ChecksumIEEE(b) == ChecksumRange(b, 1, Len(b))

(***************************************************************************)
(* Sectors and their typed views (encoding/binary.Read of the raw bytes).  *)
(***************************************************************************)
ZeroSector == [kind |-> "zero"]

DataSector == [kind |-> "data"]

\* gptPartition
ZeroEntry ==
  [TypeGUID |-> ZeroGUID, UniqueGUID |-> ZeroGUID, FirstLBA |-> 0, LastLBA |-> 0,
   AttributeFlags |-> 0, PartitionName |-> << >>]

\* the bytes of one entry slot holding e (an all-zero slot is the zero sector)
EntrySector(e) == IF e = ZeroEntry THEN ZeroSector ELSE [kind |-> "ent", e |-> e]

\* binary.Read(slot, &partition).  Only entry slots and zero sectors are
\* ever read as entries on the modelled devices.
AsEntry(s) == IF s.kind = "ent" THEN s.e ELSE ZeroEntry

\* gptHeader; the fields the tool reads, in offset order
ZeroHeader ==
  [kind |-> "hdr", Signature |-> "", HeaderSize |-> 0, CRC32 |-> 0, CurrentLBA |-> 0,
   BackupLBA |-> 0, FirstUsableLBA |-> 0, LastUsableLBA |-> 0, PartitionEntryLBA |-> 0,
   NumPartEntries |-> 0, PartEntrySize |-> 0, PartEntryArrayCRC32 |-> 0]

\* binary.Read(sector, &header).  A sector of another kind is only ever
\* consulted for its signature, which is not "EFI PART".
AsHeader(s) == IF s.kind = "hdr" THEN s ELSE ZeroHeader

HdrFields ==
  << "Signature", "HeaderSize", "CRC32", "CurrentLBA", "BackupLBA", "FirstUsableLBA",
     "LastUsableLBA", "PartitionEntryLBA", "NumPartEntries", "PartEntrySize",
     "PartEntryArrayCRC32" >>

\* byte offset at which each field ends
HdrFieldEnd == << 8, 16, 20, 32, 40, 48, 56, 80, 84, 88, 92 >>

HdrFieldValue(hb, f) ==
  IF f = "Signature" THEN (IF hb.Signature = "EFI PART" THEN 1 ELSE 0) ELSE hb[f]

\* headerBytes[:size], field by field (a field is present when it lies
\* wholly inside the prefix)
HeaderBytes(hb, size) ==
  LET n == Cardinality({i \in 1..Len(HdrFields) : HdrFieldEnd[i] <= size})
  IN [i \in 1..n |-> HdrFieldValue(hb, HdrFields[i])]

\* a header write that leaves the sector as it was
HeaderPrefixKept(old, hb, size) == old

\* the sector after WriteAt(headerBytes[:size]) over sector old
HeaderPrefixOver(old, hb, size) ==
  IF size <= 0 THEN old
  ELSE LET o == AsHeader(old)
       IN [f \in DOMAIN ZeroHeader |->
             IF f = "kind" THEN "hdr"
             ELSE LET i == CHOOSE k \in 1..Len(HdrFields) : HdrFields[k] = f
                  IN IF HdrFieldEnd[i] <= size THEN hb[f] ELSE o[f]]

\* mbrPartition as binary.Read fills it: the blank CHS fields are skipped
ZeroMBRPartition == [Status |-> 0, Type |-> 0, FirstSector |-> 0, Sectors |-> 0]

\* one 16-byte entry of sector 0 / of an EBR, with its two CHS triples
ZeroRawEntry ==
  [Status |-> 0, chsFirst |-> 0, Type |-> 0, chsLast |-> 0, FirstSector |-> 0, Sectors |-> 0]

\* mbrStruct as binary.Read fills it from a sector: the blank 446 bytes of
\* boot code and the CHS bytes are not kept.  A sector of another kind is
\* only ever consulted for its signature, which is not 0xAA55.
AsMBR(s) ==
  IF s.kind = "mbr"
  THEN [Partitions |->
          [i \in 1..MBRSlots |->
             [Status |-> s.parts[i].Status, Type |-> s.parts[i].Type,
              FirstSector |-> s.parts[i].FirstSector, Sectors |-> s.parts[i].Sectors]],
        Signature |-> s.sig]
  ELSE [Partitions |-> [i \in 1..MBRSlots |-> ZeroMBRPartition], Signature |-> 0]

\* binary.Write(file, &mbr): zero bytes are written for the blank fields
MBRSector(mbr) ==
  [kind |-> "mbr", boot |-> 0,
   parts |->
     [i \in 1..MBRSlots |->
        [Status |-> mbr.Partitions[i].Status, chsFirst |-> 0,
         Type |-> mbr.Partitions[i].Type, chsLast |-> 0,
         FirstSector |-> mbr.Partitions[i].FirstSector,
         Sectors |-> mbr.Partitions[i].Sectors]],
   sig |-> mbr.Signature]

\* the bytes of one entry slot, for the checksum
EntryBytes(s) ==
  LET e == AsEntry(s)
  IN e.TypeGUID \o e.UniqueGUID \o << e.FirstLBA, e.LastLBA, e.AttributeFlags >>
     \o << Len(e.PartitionName) >> \o e.PartitionName

RECURSIVE TableBytes(_)
TableBytes(table) ==
  IF Len(table) = 0 THEN << >>
  ELSE EntryBytes(Head(table)) \o TableBytes(Tail(table))

(***************************************************************************)
(* Device I/O.  A context carries the device, the log of the calls made    *)
(* on it, and the injected fault (the k-th read or write call fails).      *)
(***************************************************************************)
NoFault == [op |-> "none", k |-> 0]

Ctx(d, fault) == [disk |-> d, io |-> << >>, fault |-> fault]

CountOps(io, op) == Cardinality({i \in 1..Len(io) : io[i].op = op})

\* ReadAt / Seek+Read of n sectors at lba: fails on the injected fault and
\* past the end of the device
ReadOK(c, lba, n) ==
  /\ c.fault # [op |-> "read", k |-> CountOps(c.io, "read") + 1]
  /\ lba + n <= DiskSectors

DoRead(c, lba, n) ==
  [c EXCEPT !.io = Append(@, [op |-> "read", lba |-> lba, n |-> n, ok |-> ReadOK(c, lba, n)])]

WriteOK(c, lba, n) ==
  /\ c.fault # [op |-> "write", k |-> CountOps(c.io, "write") + 1]
  /\ lba + n <= DiskSectors

\* WriteAt of whole sectors; a failed call leaves the device as it was
DoWrite(c, lba, sectors) ==
  LET n == Len(sectors)
      ok == WriteOK(c, lba, n)
  IN [c EXCEPT
        !.io = Append(@, [op |-> "write", lba |-> lba, n |-> n, ok |-> ok]),
        !.disk = IF ok
                 THEN [l \in LBAs |->
                         IF l >= lba /\ l < lba + n THEN sectors[l - lba + 1] ELSE @[l]]
                 ELSE @]

\* the header write left out: nothing is written and no call is made
DoWriteHeaderSkipped(c, lba, hb, size) == c

\* WriteAt(headerBytes[:size], lba*512)
DoWriteHeader(c, lba, hb, size) ==
  LET ok == WriteOK(c, lba, 1)
  IN [c EXCEPT
        !.io = Append(@, [op |-> "write", lba |-> lba, n |-> 1, ok |-> ok]),
        !.disk = IF ok
                 THEN [l \in LBAs |-> IF l = lba THEN HeaderPrefixOver(@[l], hb, size) ELSE @[l]]
                 ELSE @]

Done(c, err) == [disk |-> c.disk, io |-> c.io, err |-> err]

ReadSectors(d, lba, n) == [i \in 1..n |-> d[lba + i - 1]]

(***************************************************************************)
(* The create form.  A text field is [t, n, unit]: t = "empty" for the     *)
(* empty string, "num" for decimal digits (value n), "size" for digits     *)
(* followed by a unit letter, "bad" for text that no Sscanf accepts.       *)
(* FormField indices: 0 scheme, 1 number, 2 name, 3 startLBA,              *)
(* 4 sizeOrEnd, 5 type.                                                    *)
(***************************************************************************)
TextEmpty == [t |-> "empty", n |-> 0, unit |-> ""]

TextNum(n) == [t |-> "num", n |-> n, unit |-> ""]

TextSize(n, unit) == [t |-> "size", n |-> n, unit |-> unit]

TextBad == [t |-> "bad", n |-> 0, unit |-> ""]

\* PartitionInfo (the fields the partition-table code reads or fills)
NoPartition ==
  [Number |-> 0, Name |-> << >>, Type |-> << >>, FirstLBA |-> 0, LastLBA |-> 0,
   TotalSectors |-> 0, SectorSize |-> 0, Status |-> "", Unused |-> FALSE,
   Mounted |-> FALSE]

Multiplier(unit) ==
  CASE unit = "B" -> 1
    [] unit = "K" -> 1024
    [] unit = "M" -> 1024 * 1024
    [] unit = "G" -> 1024 * 1024 * 1024
    [] OTHER -> 0

\* parseSizeWithUnits, on the "size" texts
parseSizeWithUnits(text) ==
  IF text.t = "size" /\ Multiplier(text.unit) # 0
  THEN [err |-> "", bytes |-> text.n * Multiplier(text.unit)]
  ELSE [err |-> "invalid size format", bytes |-> 0]

\* Start LBAs are drawn from 1 upwards, so that startLBA + totalSectors - 1
\* does not wrap below zero.
parsePartitionForm(form) ==
  LET f == form.fields
      isGPT == f.scheme = "GPT"
      fail(msg) == [err |-> msg, preview |-> NoPartition, isGPT |-> isGPT]
      partNum == IF f.number.t = "num" THEN f.number.n ELSE 0
      startLBA == IF f.startLBA.t = "empty" THEN form.unusedPartition.FirstLBA
                  ELSE f.startLBA.n
      sectorSize == IF form.unusedPartition.SectorSize > 0
                    THEN form.unusedPartition.SectorSize ELSE 512
      sz == parseSizeWithUnits(f.sizeOrEnd)
      sizeSectors == (sz.bytes \div sectorSize)
                     + (IF sz.bytes % sectorSize # 0 THEN 1 ELSE 0)
      isEnd == f.sizeOrEnd.t = "num"
      lastLBA == IF isEnd THEN f.sizeOrEnd.n ELSE startLBA + sizeSectors - 1
      totalSectors == IF isEnd THEN lastLBA - startLBA + 1 ELSE sizeSectors
  IN IF f.number.t \notin { "empty", "num" } THEN fail("invalid partition number")
     ELSE IF ~isGPT /\ f.number.t = "num" /\ (partNum < 1 \/ partNum > 4)
     THEN fail("MBR partition number must be 1-4")
     ELSE IF f.startLBA.t \notin { "empty", "num" }
     THEN fail("invalid start LBA (must be numeric)")
     ELSE IF f.sizeOrEnd.t = "empty" THEN fail("size or end LBA is required")
     ELSE IF isEnd /\ lastLBA < startLBA THEN fail("end LBA must be >= start LBA")
     ELSE IF ~isEnd /\ sz.err # "" THEN fail("invalid size or end LBA")
     ELSE IF ~isEnd /\ form.diskSize > 0 /\ lastLBA >= form.diskSize \div sectorSize
     THEN fail("partition extends beyond disk")
     ELSE [err |-> "",
           preview |->
             [NoPartition EXCEPT
                !.Number = partNum, !.Name = f.name, !.Type = f.type,
                !.FirstLBA = startLBA, !.LastLBA = lastLBA,
                !.TotalSectors = totalSectors, !.SectorSize = sectorSize],
           isGPT |-> isGPT]

(***************************************************************************)
(* GPT mutation.                                                           *)
(***************************************************************************)
\* the test the mutators and the reader apply to a slot: "empty" when the
\* type GUID is all zero or FirstLBA is 0
SlotEmpty(s) == isAllZero(AsEntry(s).TypeGUID) \/ AsEntry(s).FirstLBA = 0

\* index of the first empty slot, 0 when there is none
FirstEmptySlot(table) ==
  IF \E i \in 1..Len(table) : SlotEmpty(table[i])
  THEN CHOOSE i \in 1..Len(table) :
         SlotEmpty(table[i]) /\ \A j \in 1..(i - 1) : ~SlotEmpty(table[j])
  ELSE 0

\* index of the k-th non-empty slot in slot order, 0 when there is none
NthUsedSlot(table, k) ==
  LET used(i) == Cardinality({j \in 1..i : ~SlotEmpty(table[j])})
  IN IF k >= 1 /\ \E i \in 1..Len(table) : ~SlotEmpty(table[i]) /\ used(i) = k
     THEN CHOOSE i \in 1..Len(table) : ~SlotEmpty(table[i]) /\ used(i) = k
     ELSE 0

\* createGPTPartition lines 84-139: the slot the new entry is written to
\* (0: no slot)
createSlot(table, requestedPartNum) ==
  IF requestedPartNum > 0
  THEN IF NthUsedSlot(table, requestedPartNum - 1) # 0
       THEN NthUsedSlot(table, requestedPartNum - 1)
       ELSE FirstEmptySlot(table)
  ELSE FirstEmptySlot(table)

\* the writes in another order: both entry arrays first, then both headers
writeGPTTableArraysFirst(c, header, table) ==
  LET newPartArrayCRC == ChecksumIEEE(TableBytes(table))
      c1 == DoRead(c, GPTHeaderLBA, 1)
      hb1 == [AsHeader(c.disk[GPTHeaderLBA]) EXCEPT
                !.PartEntryArrayCRC32 = newPartArrayCRC, !.CRC32 = 0]
      hb2 == [hb1 EXCEPT !.CRC32 = ChecksumIEEE(HeaderBytes(hb1, header.HeaderSize))]
      c2 == DoWrite(c1, header.PartitionEntryLBA, table)
      c3 == DoRead(c2, header.BackupLBA, 1)
      backupHeader == AsHeader(c2.disk[header.BackupLBA])
      bb1 == [backupHeader EXCEPT !.PartEntryArrayCRC32 = newPartArrayCRC, !.CRC32 = 0]
      bb2 == [bb1 EXCEPT !.CRC32 = ChecksumIEEE(HeaderBytes(bb1, backupHeader.HeaderSize))]
      c4 == DoWrite(c3, backupHeader.PartitionEntryLBA, table)
      c5 == DoWriteHeader(c4, GPTHeaderLBA, hb2, header.HeaderSize)
      c6 == DoWriteHeader(c5, header.BackupLBA, bb2, backupHeader.HeaderSize)
  IN IF ~ReadOK(c, GPTHeaderLBA, 1) THEN Done(c1, "error reading header for CRC")
     ELSE IF ~WriteOK(c1, header.PartitionEntryLBA, Len(table))
     THEN Done(c2, "error writing GPT entries")
     ELSE IF ~ReadOK(c2, header.BackupLBA, 1)
     THEN Done(c3, "error reading backup GPT header")
     ELSE IF ~WriteOK(c3, backupHeader.PartitionEntryLBA, Len(table))
     THEN Done(c4, "error writing backup GPT entries")
     ELSE IF ~WriteOK(c4, GPTHeaderLBA, 1) THEN Done(c5, "error writing GPT header")
     ELSE IF ~WriteOK(c5, header.BackupLBA, 1)
     THEN Done(c6, "error writing backup GPT header")
     ELSE Done(c6, "")

\* the CRC update and the four writes that end createGPTPartition
\* (lines 179-252) and deleteGPTPartition (lines 88-167)
writeGPTTable(c, header, table) ==
  LET newPartArrayCRC == ChecksumIEEE(TableBytes(table))
      c1 == DoRead(c, GPTHeaderLBA, 1)
      hb1 == [AsHeader(c.disk[GPTHeaderLBA]) EXCEPT
                !.PartEntryArrayCRC32 = newPartArrayCRC, !.CRC32 = 0]
      hb2 == [hb1 EXCEPT !.CRC32 = ChecksumIEEE(HeaderBytes(hb1, header.HeaderSize))]
      c2 == DoWrite(c1, header.PartitionEntryLBA, table)
      c3 == DoWriteHeader(c2, GPTHeaderLBA, hb2, header.HeaderSize)
      c4 == DoRead(c3, header.BackupLBA, 1)
      backupHeader == AsHeader(c3.disk[header.BackupLBA])
      bb1 == [backupHeader EXCEPT !.PartEntryArrayCRC32 = newPartArrayCRC, !.CRC32 = 0]
      bb2 == [bb1 EXCEPT !.CRC32 = ChecksumIEEE(HeaderBytes(bb1, backupHeader.HeaderSize))]
      c5 == DoWrite(c4, backupHeader.PartitionEntryLBA, table)
      c6 == DoWriteHeader(c5, header.BackupLBA, bb2, backupHeader.HeaderSize)
  IN IF ~ReadOK(c, GPTHeaderLBA, 1) THEN Done(c1, "error reading header for CRC")
     ELSE IF header.HeaderSize > 512 THEN Done(c1, "panic")
     ELSE IF ~WriteOK(c1, header.PartitionEntryLBA, Len(table))
     THEN Done(c2, "error writing GPT entries")
     ELSE IF ~WriteOK(c2, GPTHeaderLBA, 1) THEN Done(c3, "error writing GPT header")
     ELSE IF ~ReadOK(c3, header.BackupLBA, 1)
     THEN Done(c4, "error reading backup GPT header")
     ELSE IF backupHeader.HeaderSize > 512 THEN Done(c4, "panic")
     ELSE IF ~WriteOK(c4, backupHeader.PartitionEntryLBA, Len(table))
     THEN Done(c5, "error writing backup GPT entries")
     ELSE IF ~WriteOK(c5, header.BackupLBA, 1)
     THEN Done(c6, "error writing backup GPT header")
     ELSE Done(c6, "")

\* number of sectors of the entry array a header declares
TableSectors(header) == (header.NumPartEntries * header.PartEntrySize) \div 512

createGPTPartition(c, preview, fields) ==
  LET c1 == DoRead(c, GPTHeaderLBA, 1)
      header == AsHeader(c.disk[GPTHeaderLBA])
      n == TableSectors(header)
      c2 == DoRead(c1, header.PartitionEntryLBA, n)
      table == ReadSectors(c.disk, header.PartitionEntryLBA, n)
      emptySlot == createSlot(table, preview.Number)
      partition ==
        [TypeGUID |-> getTypeGUIDFromName(fields.type),
         UniqueGUID |-> generateGUID,
         FirstLBA |-> preview.FirstLBA,
         LastLBA |-> preview.LastLBA,
         AttributeFlags |-> 0,
         PartitionName |-> NameField(encodeUTF16LE(fields.name))]
      newTable == [table EXCEPT ![emptySlot] = EntrySector(partition)]
  IN IF ~ReadOK(c, GPTHeaderLBA, 1) THEN Done(c1, "error reading GPT header")
     ELSE IF ~ReadOK(c1, header.PartitionEntryLBA, n)
     THEN Done(c2, "error reading GPT entries")
     ELSE IF emptySlot = 0 THEN Done(c2, "no free partition slot available")
     ELSE writeGPTTable(c2, header, newTable)

deleteGPTPartition(c, part) ==
  LET c1 == DoRead(c, GPTHeaderLBA, 1)
      header == AsHeader(c.disk[GPTHeaderLBA])
      n == TableSectors(header)
      c2 == DoRead(c1, header.PartitionEntryLBA, n)
      table == ReadSectors(c.disk, header.PartitionEntryLBA, n)
      slot == NthUsedSlot(table, part.Number)
      newTable == [table EXCEPT ![slot] = ZeroSector]
  IN IF ~ReadOK(c, GPTHeaderLBA, 1) THEN Done(c1, "error reading GPT header")
     ELSE IF ~ReadOK(c1, header.PartitionEntryLBA, n)
     THEN Done(c2, "error reading GPT entries")
     ELSE IF slot = 0 THEN Done(c2, "partition not found")
     ELSE writeGPTTable(c2, header, newTable)

(***************************************************************************)
(* MBR mutation.                                                           *)
(***************************************************************************)
\* createMBRPartition lines 273-293: the slot the new entry is written to
\* (0: no slot)
createMBRSlot(mbr, requestedPartNum) ==
  LET free(i) == mbr.Partitions[i].Sectors = 0
      firstFree == IF \E i \in 1..MBRSlots : free(i)
                   THEN CHOOSE i \in 1..MBRSlots : free(i) /\ \A j \in 1..(i - 1) : ~free(j)
                   ELSE 0
  IN IF requestedPartNum > 0 /\ requestedPartNum <= 4 /\ free(requestedPartNum)
     THEN requestedPartNum
     ELSE firstFree

createMBRPartition(c, preview, fields, isExtended) ==
  LET c1 == DoRead(c, 0, 1)
      mbr == AsMBR(c.disk[0])
      emptySlot == createMBRSlot(mbr, preview.Number)
      part == [Status |-> 0, Type |-> getMBRTypeFromName(fields.type),
               FirstSector |-> preview.FirstLBA, Sectors |-> preview.TotalSectors]
      newMBR == [mbr EXCEPT !.Partitions[emptySlot] = part]
      c2 == DoWrite(c1, 0, << MBRSector(newMBR) >>)
  IN IF ~ReadOK(c, 0, 1) THEN Done(c1, "error reading MBR")
     ELSE IF mbr.Signature # MBRSignature THEN Done(c1, "invalid MBR signature")
     ELSE IF emptySlot = 0 THEN Done(c1, "no free partition slot available")
     ELSE IF ~WriteOK(c1, 0, 1) THEN Done(c2, "error writing MBR")
     ELSE Done(c2, "")

\* index of the k-th populated primary slot, 0 when there is none
NthPopulatedSlot(mbr, k) ==
  LET used(i) == Cardinality({j \in 1..i : mbr.Partitions[j].Sectors # 0})
  IN IF k >= 1 /\ \E i \in 1..MBRSlots : mbr.Partitions[i].Sectors # 0 /\ used(i) = k
     THEN CHOOSE i \in 1..MBRSlots : mbr.Partitions[i].Sectors # 0 /\ used(i) = k
     ELSE 0

deleteMBRPartition(c, part) ==
  LET c1 == DoRead(c, 0, 1)
      mbr == AsMBR(c.disk[0])
      slot == NthPopulatedSlot(mbr, part.Number)
      newMBR == [mbr EXCEPT !.Partitions[slot] = ZeroMBRPartition]
      c2 == DoWrite(c1, 0, << MBRSector(newMBR) >>)
  IN IF ~ReadOK(c, 0, 1) THEN Done(c1, "error reading MBR")
     ELSE IF mbr.Signature # MBRSignature THEN Done(c1, "invalid MBR signature")
     ELSE IF slot = 0 THEN Done(c1, "partition not found")
     ELSE IF ~WriteOK(c1, 0, 1) THEN Done(c2, "error writing MBR")
     ELSE Done(c2, "")

(***************************************************************************)
(* Dispatch.                                                               *)
(***************************************************************************)
\* isGPTDiskSafe: Seek(512), binary.Read of the header, signature test
isGPTDiskSafe(c) ==
  [c |-> DoRead(c, GPTHeaderLBA, 1),
   isGPT |-> ReadOK(c, GPTHeaderLBA, 1)
             /\ AsHeader(c.disk[GPTHeaderLBA]).Signature = "EFI PART"]

Opened(r) == [disk |-> r.disk, io |-> r.io, err |-> r.err, opened |-> TRUE]

NotOpened(d, err) == [disk |-> d, io |-> << >>, err |-> err, opened |-> FALSE]

createPartition(d, unusedPart, fields, fault) ==
  LET form == [fields |-> fields, unusedPartition |-> unusedPart,
               isGPT |-> fields.scheme = "GPT", diskSize |-> 0]
      p == parsePartitionForm(form)
      isExtended == ~p.isGPT /\ fields.type = "Extended Partition"
      g == isGPTDiskSafe(Ctx(d, fault))
  IN IF p.err # "" THEN NotOpened(d, p.err)
     ELSE IF g.isGPT THEN Opened(createGPTPartition(g.c, p.preview, fields))
     ELSE Opened(createMBRPartition(g.c, p.preview, fields, isExtended))

\* deletePartition without the test of part.Mounted
deletePartitionUnchecked(d, part, fault) ==
  LET g == isGPTDiskSafe(Ctx(d, fault))
  IN IF g.isGPT THEN Opened(deleteGPTPartition(g.c, part))
     ELSE Opened(deleteMBRPartition(g.c, part))

deletePartition(d, part, fault) ==
  LET g == isGPTDiskSafe(Ctx(d, fault))
  IN IF part.Mounted THEN NotOpened(d, "cannot delete mounted partition")
     ELSE IF g.isGPT THEN Opened(deleteGPTPartition(g.c, part))
     ELSE Opened(deleteMBRPartition(g.c, part))

(***************************************************************************)
(* The reader.  It opens the device on its own handle; the only read       *)
(* errors it meets here are reads past the end of the device.  The         *)
(* environment supplies `stat` (file.Stat().Size(), 0 on many block        *)
(* devices) and `mounts`, the partition numbers findMountPointForDevice    *)
(* reports as mounted.  getSectorSize is taken to answer 512 and           *)
(* getBlockDeviceSize the true device size.                                *)
(***************************************************************************)
DiskBytes == DiskSectors * 512

\* "Unused" as UTF-16 code units, the representation of every name
UnusedName == << 85, 110, 117, 115, 101, 100 >>

PlaceholderSectors == (1024 * 1024 * 1024) \div 512

UnusedRow(number, first, lastLBA, total) ==
  [NoPartition EXCEPT
     !.Number = number, !.Name = UnusedName, !.Type = << " ", " " >>,
     !.FirstLBA = first, !.LastLBA = lastLBA, !.TotalSectors = total,
     !.SectorSize = 512, !.Unused = TRUE]

RECURSIVE lastPartitionEnd(_)
lastPartitionEnd(rows) ==
  IF Len(rows) = 0 THEN 0
  ELSE LET part == Head(rows)
           e == part.FirstLBA + part.TotalSectors - 1
           partEnd == IF part.LastLBA > 0 /\ part.LastLBA > e THEN part.LastLBA ELSE e
       IN Max(partEnd, lastPartitionEnd(Tail(rows)))

\* the trailing "Unused" row both table readers append
\* (getGPTPartitionsData 234-327 with floor 34, getMBRPartitionsData 474-567
\* with floor 1); the two differ only in how LastLBA is written, which is
\* the same number
withUnused(rows, stat, floor) ==
  LET statSectors == stat \div 512
      unusedStart == IF Len(rows) = 0 THEN floor ELSE lastPartitionEnd(rows) + 1
      totalDiskSectors == IF Len(rows) = 0 /\ statSectors = 0
                          THEN DiskBytes \div 512 ELSE statSectors
  IN IF Len(rows) = 0
     THEN IF totalDiskSectors > 0 /\ unusedStart < totalDiskSectors
          THEN << UnusedRow(1, unusedStart, totalDiskSectors - 1,
                            totalDiskSectors - unusedStart) >>
          ELSE << UnusedRow(1, unusedStart, unusedStart + PlaceholderSectors - 1,
                            PlaceholderSectors) >>
     ELSE IF totalDiskSectors > 0 /\ unusedStart < totalDiskSectors
     THEN Append(rows, UnusedRow(Len(rows) + 1, unusedStart, totalDiskSectors - 1,
                                 totalDiskSectors - unusedStart))
     ELSE rows

RECURSIVE gptRowsBySlot(_, _, _)
\* the loop numbering the rows with the slot index
gptRowsBySlot(table, partID, mounts) ==
  IF Len(table) = 0 THEN << >>
  ELSE IF SlotEmpty(Head(table)) THEN gptRowsBySlot(Tail(table), partID + 1, mounts)
  ELSE LET partition == AsEntry(Head(table))
       IN << [NoPartition EXCEPT
                !.Number = partID + 1,
                !.Name = decodeUTF16LE(partition.PartitionName),
                !.Type = guidToString(partition.TypeGUID),
                !.FirstLBA = partition.FirstLBA,
                !.LastLBA = partition.LastLBA,
                !.TotalSectors = partition.LastLBA - partition.FirstLBA + 1,
                !.SectorSize = 512,
                !.Mounted = (partID + 1) \in mounts] >>
          \o gptRowsBySlot(Tail(table), partID + 1, mounts)

RECURSIVE gptRows(_, _, _)
gptRows(table, partID, mounts) ==
  IF Len(table) = 0 THEN << >>
  ELSE IF SlotEmpty(Head(table)) THEN gptRows(Tail(table), partID, mounts)
  ELSE LET partition == AsEntry(Head(table))
       IN << [NoPartition EXCEPT
                !.Number = partID + 1,
                !.Name = decodeUTF16LE(partition.PartitionName),
                !.Type = guidToString(partition.TypeGUID),
                !.FirstLBA = partition.FirstLBA,
                !.LastLBA = partition.LastLBA,
                !.TotalSectors = partition.LastLBA - partition.FirstLBA + 1,
                !.SectorSize = 512,
                !.Mounted = (partID + 1) \in mounts] >>
          \o gptRows(Tail(table), partID + 1, mounts)

getGPTPartitionsData(d, stat, mounts) ==
  LET header == AsHeader(d[GPTHeaderLBA])
      n == TableSectors(header)
  IN IF header.HeaderSize < MinHeaderSize \/ header.HeaderSize > 512
     THEN [err |-> "invalid GPT header size", rows |-> << >>]
     ELSE IF header.PartitionEntryLBA + n > DiskSectors
     THEN [err |-> "error reading GPT entries", rows |-> << >>]
     ELSE [err |-> "",
           rows |-> withUnused(gptRows(ReadSectors(d, header.PartitionEntryLBA, n), 0, mounts),
                               stat, 34)]

\* ebrWalk with the next EBR taken relative to the current EBR
RECURSIVE ebrWalkFromCurrent(_, _, _, _, _)
ebrWalkFromCurrent(d, sizeBytes, baseLBA, nextEBR, n) ==
  IF n <= 0 \/ nextEBR < 0
  THEN [err |-> "", parts |-> << >>, reads |-> 0, next |-> nextEBR, at |-> << >>]
  ELSE IF n = 1
  THEN IF nextEBR + 1 > DiskSectors
       THEN [err |-> "read EBR failed", parts |-> << >>, reads |-> 1, next |-> -1,
             at |-> << nextEBR >>]
       ELSE IF AsMBR(d[nextEBR]).Signature # MBRSignature
       THEN [err |-> "EBR signature missing", parts |-> << >>, reads |-> 1, next |-> -1,
             at |-> << nextEBR >>]
       ELSE LET e1 == AsMBR(d[nextEBR]).Partitions[1]
                e2 == AsMBR(d[nextEBR]).Partitions[2]
                startLBA == nextEBR + e1.FirstSector
                endLBA == startLBA + e1.Sectors - 1
                maxLBA == sizeBytes \div 512
                here == IF e1.Type # 0 /\ e1.Sectors # 0
                           /\ (sizeBytes > 0 => (startLBA <= maxLBA /\ endLBA <= maxLBA))
                        THEN << [Status |-> e1.Status, Type |-> e1.Type,
                                 FirstSector |-> startLBA, Sectors |-> e1.Sectors] >>
                        ELSE << >>
            IN [err |-> "", parts |-> here, reads |-> 1, at |-> << nextEBR >>,
                next |-> IF e2.Type = 0 \/ e2.Sectors = 0 \/ ~isExtendedType(e2.Type)
                         THEN -1 ELSE nextEBR + e2.FirstSector]
  ELSE Only({ IF a.err # "" \/ a.next < 0 THEN a
              ELSE Only({ IF b.err # ""
                          THEN [b EXCEPT !.reads = a.reads + @, !.at = a.at \o @]
                          ELSE [b EXCEPT !.parts = a.parts \o @, !.reads = a.reads + @,
                                         !.at = a.at \o @] :
                          b \in { ebrWalkFromCurrent(d, sizeBytes, baseLBA, a.next, n - n \div 2) } }) :
              a \in { ebrWalkFromCurrent(d, sizeBytes, baseLBA, nextEBR, n \div 2) } })

\* readEBRChain's loop `for hops := 0; hops < maxHops; hops++` from the EBR at
\* nextEBR for at most n more hops.  The result is [err, parts, reads, next, at]:
\* reads counts the ReadAt calls made, at lists their LBAs and next is the EBR the loop would go on
\* with (-1 once it has left by break or return).  A run of n hops is the run
\* of its first half followed by the run of the rest.
RECURSIVE ebrWalk(_, _, _, _, _)
ebrWalk(d, sizeBytes, baseLBA, nextEBR, n) ==
  IF n <= 0 \/ nextEBR < 0
  THEN [err |-> "", parts |-> << >>, reads |-> 0, next |-> nextEBR, at |-> << >>]
  ELSE IF n = 1
  THEN IF nextEBR + 1 > DiskSectors
       THEN [err |-> "read EBR failed", parts |-> << >>, reads |-> 1, next |-> -1,
             at |-> << nextEBR >>]
       ELSE IF AsMBR(d[nextEBR]).Signature # MBRSignature
       THEN [err |-> "EBR signature missing", parts |-> << >>, reads |-> 1, next |-> -1,
             at |-> << nextEBR >>]
       ELSE LET e1 == AsMBR(d[nextEBR]).Partitions[1]
                e2 == AsMBR(d[nextEBR]).Partitions[2]
                startLBA == nextEBR + e1.FirstSector
                endLBA == startLBA + e1.Sectors - 1
                maxLBA == sizeBytes \div 512
                here == IF e1.Type # 0 /\ e1.Sectors # 0
                           /\ (sizeBytes > 0 => (startLBA <= maxLBA /\ endLBA <= maxLBA))
                        THEN << [Status |-> e1.Status, Type |-> e1.Type,
                                 FirstSector |-> startLBA, Sectors |-> e1.Sectors] >>
                        ELSE << >>
            IN [err |-> "", parts |-> here, reads |-> 1, at |-> << nextEBR >>,
                next |-> IF e2.Type = 0 \/ e2.Sectors = 0 \/ ~isExtendedType(e2.Type)
                         THEN -1 ELSE baseLBA + e2.FirstSector]
  ELSE Only({ IF a.err # "" \/ a.next < 0 THEN a
              ELSE Only({ IF b.err # ""
                          THEN [b EXCEPT !.reads = a.reads + @, !.at = a.at \o @]
                          ELSE [b EXCEPT !.parts = a.parts \o @, !.reads = a.reads + @,
                                         !.at = a.at \o @] :
                          b \in { ebrWalk(d, sizeBytes, baseLBA, a.next, n - n \div 2) } }) :
              a \in { ebrWalk(d, sizeBytes, baseLBA, nextEBR, n \div 2) } })

\* readEBRChain with the loop test `hops <= maxHops`
readEBRChainOneMore(d, sizeBytes, baseLBA) ==
  LET r == ebrWalk(d, sizeBytes, baseLBA, baseLBA, MaxHops + 1)
  IN [err |-> r.err, parts |-> r.parts, reads |-> r.reads, at |-> r.at]

readEBRChain(d, sizeBytes, baseLBA) ==
  LET r == ebrWalk(d, sizeBytes, baseLBA, baseLBA, MaxHops)
  IN [err |-> r.err, parts |-> r.parts, reads |-> r.reads, at |-> r.at]

\* fmt.Sprintf("0x%02x", t)
mbrTypeString(t) == << "0", "x" >> \o HexByte(t)

mbrRow(part, partNum, mounts) ==
  [NoPartition EXCEPT
     !.Number = partNum,
     !.Name = << partNum >>,
     !.Type = mbrTypeString(part.Type),
     !.FirstLBA = part.FirstSector,
     !.TotalSectors = part.Sectors,
     !.SectorSize = 512,
     !.Mounted = partNum \in mounts]

RECURSIVE mbrRowsOf(_, _, _)
mbrRowsOf(parts, partNum, mounts) ==
  IF Len(parts) = 0 THEN << >>
  ELSE << mbrRow(Head(parts), partNum, mounts) >> \o mbrRowsOf(Tail(parts), partNum + 1, mounts)

\* the loop of getMBRPartitionsData over the four primary slots from slot i
RECURSIVE mbrRows(_, _, _, _, _, _)
mbrRows(d, mbr, sizeBytes, i, partNum, mounts) ==
  IF i > MBRSlots THEN << >>
  ELSE LET part == mbr.Partitions[i]
           logical == Only({ IF chain.err = "" THEN chain.parts ELSE << >> :
                             chain \in { readEBRChain(d, sizeBytes, part.FirstSector) } })
       IN IF part.Sectors = 0 THEN mbrRows(d, mbr, sizeBytes, i + 1, partNum, mounts)
          ELSE IF isExtendedType(part.Type)
          THEN mbrRowsOf(logical, partNum, mounts)
               \o mbrRows(d, mbr, sizeBytes, i + 1, partNum + Len(logical), mounts)
          ELSE << mbrRow(part, partNum, mounts) >>
               \o mbrRows(d, mbr, sizeBytes, i + 1, partNum + 1, mounts)

getMBRPartitionsData(d, stat, mounts) ==
  LET mbr == AsMBR(d[0])
      sizeBytes == IF stat <= 0 THEN DiskBytes ELSE stat
  IN IF mbr.Signature # MBRSignature
     THEN [err |-> "invalid MBR signature", rows |-> << >>]
     ELSE [err |-> "", rows |-> withUnused(mbrRows(d, mbr, sizeBytes, 1, 1, mounts), stat, 1)]

getUnusedSpaceForEmptyDisk(stat, isGPT) ==
  LET totalDiskSectors == stat \div 512
      unusedStart == IF isGPT THEN 34 ELSE 1
  IN IF totalDiskSectors = 0 THEN [err |-> "disk size is zero", rows |-> << >>]
     ELSE IF unusedStart >= totalDiskSectors THEN [err |-> "disk too small", rows |-> << >>]
     ELSE [err |-> "",
           rows |-> << UnusedRow(1, unusedStart, totalDiskSectors - 1,
                                 totalDiskSectors - unusedStart) >>]

getPartitionsDataDirectPlatform(d, stat, mounts) ==
  LET isGPT == AsHeader(d[GPTHeaderLBA]).Signature = "EFI PART"
      unused == getUnusedSpaceForEmptyDisk(stat, isGPT)
  IN Only({ IF r.err # "" \/ Len(r.rows) = 0
            THEN IF unused.err = "" THEN unused ELSE [err |-> r.err, rows |-> << >>]
            ELSE r :
            r \in { IF isGPT THEN getGPTPartitionsData(d, stat, mounts)
                    ELSE getMBRPartitionsData(d, stat, mounts) } })

\* getPartitionsData: the direct reader; the text fallback it takes when the
\* direct reader fails or lists nothing is not modelled and counts as an error
getPartitionsData(d, stat, mounts) ==
  Only({ IF r.err = "" /\ Len(r.rows) > 0 THEN r
         ELSE [err |-> "failed to read partitions", rows |-> << >>] :
         r \in { getPartitionsDataDirectPlatform(d, stat, mounts) } })

(***************************************************************************)
(* The text listers: listPartitions of the command line, which ends the    *)
(* process with log.Fatalf ("fatal: ...") where listPartitionsSafe of the  *)
(* TUI returns an error.  Their output is modelled by the rows they print. *)
(* A run-time panic of the Go code is the outcome "panic".                 *)
(***************************************************************************)
\* validateGPTHeaderCRC(headerBytes, headerSize) on a 512-byte sector: the
\* error it returns ("" for nil), or "panic" when tmp[16..19] is out of range
headerCRCOutcome(s) ==
  LET h == AsHeader(s)
  IN IF 512 < h.HeaderSize THEN "header too small for validation"
     ELSE IF h.HeaderSize < 20 THEN "panic"
     ELSE IF ChecksumIEEE(HeaderBytes([h EXCEPT !.CRC32 = 0], h.HeaderSize)) # h.CRC32
     THEN "GPT header CRC mismatch"
     ELSE ""

\* the entries kept for display: TypeGUID not all-zero and FirstLBA # 0,
\* numbered by partID
displayPartitions(table) == gptRows(table, 0, {})

listGPTPartitionsSafe(d) ==
  LET header == AsHeader(d[GPTHeaderLBA])
      n == TableSectors(header)
  IN IF header.HeaderSize < MinHeaderSize \/ header.HeaderSize > 512
     THEN [err |-> "invalid GPT header size", out |-> << >>]
     ELSE IF header.PartitionEntryLBA + n > DiskSectors
     THEN [err |-> "error reading GPT entries", out |-> << >>]
     ELSE [err |-> "",
           out |-> displayPartitions(ReadSectors(d, header.PartitionEntryLBA, n))]

\* the lines listMBRPartitionsSafe / readMBRPartitions print from slot i on:
\* the extended container takes a number of its own, before its logicals
RECURSIVE mbrLines(_, _, _, _, _)
mbrLines(d, mbr, sizeBytes, i, partNum) ==
  IF i > MBRSlots THEN << >>
  ELSE LET part == mbr.Partitions[i]
           logical == Only({ IF chain.err = "" THEN chain.parts ELSE << >> :
                             chain \in { readEBRChain(d, sizeBytes, part.FirstSector) } })
       IN IF part.Sectors = 0 THEN mbrLines(d, mbr, sizeBytes, i + 1, partNum)
          ELSE IF isExtendedType(part.Type)
          THEN << mbrRow(part, partNum, {}) >> \o mbrRowsOf(logical, partNum + 1, {})
               \o mbrLines(d, mbr, sizeBytes, i + 1, partNum + 1 + Len(logical))
          ELSE << mbrRow(part, partNum, {}) >>
               \o mbrLines(d, mbr, sizeBytes, i + 1, partNum + 1)

listMBRPartitionsSafe(d, stat) ==
  LET mbr == AsMBR(d[0])
      sizeBytes == IF stat <= 0 THEN DiskBytes ELSE stat
  IN IF mbr.Signature # MBRSignature
     THEN [err |-> "invalid MBR signature", out |-> << >>]
     ELSE [err |-> "", out |-> mbrLines(d, mbr, sizeBytes, 1, 1)]

listPartitionsSafe(d, stat) ==
  IF AsHeader(d[GPTHeaderLBA]).Signature = "EFI PART"
  THEN listGPTPartitionsSafe(d)
  ELSE listMBRPartitionsSafe(d, stat)

\* readMBRPartitions: as listMBRPartitionsSafe, ending the process instead
readMBRPartitions(d, stat) ==
  LET r == listMBRPartitionsSafe(d, stat)
  IN IF r.err # "" THEN [err |-> "fatal: Invalid MBR signature", out |-> << >>] ELSE r

\* listPartitions: the CRC of the header is validated (a warning only)
\* before its size is
listPartitions(d, stat) ==
  LET header == AsHeader(d[GPTHeaderLBA])
      n == TableSectors(header)
  IN IF header.Signature # "EFI PART" THEN readMBRPartitions(d, stat)
     ELSE IF headerCRCOutcome(d[GPTHeaderLBA]) = "panic"
     THEN [err |-> "panic", out |-> << >>]
     ELSE IF header.HeaderSize < MinHeaderSize \/ header.HeaderSize > 512
     THEN [err |-> "fatal: Invalid GPT header size", out |-> << >>]
     ELSE IF header.PartitionEntryLBA + n > DiskSectors
     THEN [err |-> "fatal: Error reading GPT entries", out |-> << >>]
     ELSE [err |-> "",
           out |-> displayPartitions(ReadSectors(d, header.PartitionEntryLBA, n))]

(***************************************************************************)
(* The create form of the TUI.                                             *)
(***************************************************************************)
NoFields ==
  [scheme |-> "", number |-> TextEmpty, name |-> << >>, startLBA |-> TextEmpty,
   sizeOrEnd |-> TextEmpty, type |-> ""]

RECURSIVE maxNumber(_)
maxNumber(rows) ==
  IF Len(rows) = 0 THEN 0
  ELSE Max(IF Head(rows).Unused THEN 0 ELSE Head(rows).Number, maxNumber(Tail(rows)))

\* the MBR slot numbers initCreatePartitionForm offers: those no listed real
\* row is numbered with, or all four when every number is taken
availableMBRSlots(rows) ==
  LET usedSlots == { rows[j].Number : j \in { k \in 1..Len(rows) :
                       ~rows[k].Unused /\ rows[k].Number >= 1 /\ rows[k].Number <= 4 } }
      free == SelectSeq(<< 1, 2, 3, 4 >>, LAMBDA i : i \notin usedSlots)
  IN IF Len(free) = 0 THEN << 1, 2, 3, 4 >> ELSE free

\* getBlockDeviceSizePlatform is taken to answer the true device size
initCreatePartitionForm(rows, unusedPart) ==
  [fields |->
     [scheme |-> "GPT",
      number |-> TextNum(IF Len(rows) > 0 THEN maxNumber(rows) + 1 ELSE 1),
      name |-> << >>,
      startLBA |-> TextNum(unusedPart.FirstLBA),
      sizeOrEnd |-> TextEmpty,
      type |-> "Linux Filesystem"],
   unusedPartition |-> unusedPart,
   isGPT |-> TRUE,
   diskSize |-> DiskBytes,
   availableMBRSlots |-> availableMBRSlots(rows)]

\* the field validateCreatePartitionForm tests for "" (index 3 or 2) is empty
sizeOrEndFieldEmpty(form) ==
  IF form.isGPT THEN form.fields.startLBA.t = "empty" ELSE form.fields.name = << >>

validateCreatePartitionForm(form) ==
  LET p == parsePartitionForm(form)
  IN /\ ~sizeOrEndFieldEmpty(form)
     /\ p.err = ""
     /\ p.isGPT \/ (p.preview.Number >= 1 /\ p.preview.Number <= 4)
     /\ p.preview.FirstLBA >= form.unusedPartition.FirstLBA
     /\ ~(form.unusedPartition.LastLBA > 0
          /\ p.preview.LastLBA > form.unusedPartition.LastLBA)

(***************************************************************************)
(* Initial device images.                                                  *)
(***************************************************************************)
gptHeaderSector(current, backup, entryLBA, table) ==
  LET h0 == [kind |-> "hdr", Signature |-> "EFI PART", HeaderSize |-> MinHeaderSize,
             CRC32 |-> 0, CurrentLBA |-> current, BackupLBA |-> backup,
             FirstUsableLBA |-> FirstUsable, LastUsableLBA |-> LastUsable,
             PartitionEntryLBA |-> entryLBA, NumPartEntries |-> NumEntries,
             PartEntrySize |-> 512, PartEntryArrayCRC32 |-> ChecksumIEEE(TableBytes(table))]
  IN [h0 EXCEPT !.CRC32 = ChecksumIEEE(HeaderBytes(h0, MinHeaderSize))]

\* an entry some other tool wrote into slot i: one data sector, its own GUIDs
ForeignEntry(i) ==
  [TypeGUID |-> getTypeGUIDFromName("Linux Swap"),
   UniqueGUID |-> [j \in 1..16 |-> 160 + i],
   FirstLBA |-> FirstUsable + ((i - 1) % DataSectors),
   LastLBA |-> FirstUsable + ((i - 1) % DataSectors),
   AttributeFlags |-> 0,
   PartitionName |-> << 111 + i >>]

GPTTables == [1..NumEntries -> BOOLEAN]

ProtectiveMBR ==
  [kind |-> "mbr", boot |-> 0,
   parts |-> [i \in 1..MBRSlots |->
                IF i = 1
                THEN [Status |-> 0, chsFirst |-> 2, Type |-> 238, chsLast |-> 3,
                      FirstSector |-> 1, Sectors |-> DiskSectors - 1]
                ELSE ZeroRawEntry],
   sig |-> MBRSignature]

\* backup: "ok", "zero" (the backup header sector was wiped) or "far" (the
\* primary header names a backup LBA past the end of the device)
GPTDiskOf(table, backup) ==
  LET backupLBA == IF backup = "far" THEN DiskSectors ELSE BackupHeaderLBA
  IN [l \in LBAs |->
        IF l = 0 THEN ProtectiveMBR
        ELSE IF l = GPTHeaderLBA
        THEN gptHeaderSector(GPTHeaderLBA, backupLBA, PrimaryEntryLBA, table)
        ELSE IF l >= PrimaryEntryLBA /\ l < PrimaryEntryLBA + NumEntries
        THEN table[l - PrimaryEntryLBA + 1]
        ELSE IF l >= BackupEntryLBA /\ l < BackupEntryLBA + NumEntries
        THEN table[l - BackupEntryLBA + 1]
        ELSE IF l = BackupHeaderLBA
        THEN IF backup = "zero" THEN ZeroSector
             ELSE gptHeaderSector(BackupHeaderLBA, GPTHeaderLBA, BackupEntryLBA, table)
        ELSE DataSector]

GPTDisk(used, backup) ==
  GPTDiskOf([i \in 1..NumEntries |->
               IF used[i] THEN EntrySector(ForeignEntry(i)) ELSE ZeroSector], backup)

\* first LBA of the extended container of the MBR images; its second EBR
\* lies two sectors further
ExtendedLBA == MBRSlots + 1

EBRSector(type, next) ==
  [kind |-> "mbr", boot |-> 0,
   parts |-> [i \in 1..MBRSlots |->
                IF i = 1
                THEN [Status |-> 0, chsFirst |-> 4, Type |-> type, chsLast |-> 5,
                      FirstSector |-> 1, Sectors |-> 1]
                ELSE IF i = 2 /\ next # 0
                THEN [Status |-> 0, chsFirst |-> 6, Type |-> 5, chsLast |-> 7,
                      FirstSector |-> next, Sectors |-> 2]
                ELSE ZeroRawEntry],
   sig |-> MBRSignature]

MBRLayouts ==
  { f \in [1..MBRSlots -> { "none", "primary", "extended" }] :
      /\ \A i \in 1..MBRSlots : f[i] = "extended" => i <= 2
      /\ Cardinality({i \in 1..MBRSlots : f[i] = "extended"}) <= 1 }

\* boot code present, CHS bytes set, primary i on LBA i
MBRDisk(f) ==
  [l \in LBAs |->
     IF l = 0
     THEN [kind |-> "mbr", boot |-> 1,
           parts |-> [i \in 1..MBRSlots |->
              CASE f[i] = "primary" ->
                     [Status |-> IF i = 1 THEN 128 ELSE 0, chsFirst |-> 10 + i, Type |-> 131,
                      chsLast |-> 20 + i, FirstSector |-> i, Sectors |-> 1]
                [] f[i] = "extended" ->
                     [Status |-> 0, chsFirst |-> 10 + i, Type |-> 5, chsLast |-> 20 + i,
                      FirstSector |-> ExtendedLBA, Sectors |-> 4]
                [] OTHER -> ZeroRawEntry],
           sig |-> MBRSignature]
     ELSE IF (\E i \in 1..MBRSlots : f[i] = "extended") /\ l = ExtendedLBA
     THEN EBRSector(131, 2)
     ELSE IF (\E i \in 1..MBRSlots : f[i] = "extended") /\ l = ExtendedLBA + 2
     THEN EBRSector(130, 0)
     ELSE DataSector]

BlankDisk == [l \in LBAs |-> ZeroSector]

InitialDisks ==
  { GPTDisk(u, b) : u \in GPTTables, b \in { "ok", "zero", "far" } }
    \cup { MBRDisk(f) : f \in MBRLayouts }
    \cup { BlankDisk }

(***************************************************************************)
(* Inputs.                                                                 *)
(***************************************************************************)
StatSizes == { 0, DiskBytes }

MountSets == { {}, { 1 } }

Faults ==
  { NoFault } \cup { [op |-> o, k |-> k] : o \in { "read", "write" }, k \in 1..MaxFaultCall }

FieldNames == { "scheme", "number", "name", "startLBA", "sizeOrEnd", "type" }

\* start LBAs around the gap's first LBA
Starts(u) ==
  { TextEmpty, TextBad }
    \cup { TextNum(n) : n \in { m \in (u.FirstLBA - 1)..(u.FirstLBA + 1) : m >= 1 } }

\* end LBAs at the gap's first LBA and one past its last; sizes of 0 bytes,
\* of one byte (rounds up to a sector) and of 1 KiB
Sizes(u) ==
  { TextEmpty, TextBad, TextNum(u.FirstLBA), TextNum(u.LastLBA + 1),
    TextSize(0, "M"), TextSize(1, "B"), TextSize(1, "K") }

\* the texts and options tried in each field
FieldValues(u) ==
  [scheme |-> { "GPT", "MBR" },
   number |-> { TextEmpty, TextBad } \cup { TextNum(n) : n \in 1..(MBRSlots + 1) },
   name |-> { << >>, << 65 >> },
   startLBA |-> Starts(u),
   sizeOrEnd |-> Sizes(u),
   type |-> { "Linux Filesystem", "Extended Partition" }]

Edits(a, b) == Cardinality({k \in FieldNames : a[k] # b[k]})

\* the field records reached from `base` by at most n edits
RECURSIVE EditedFields(_, _, _)
EditedFields(base, u, n) ==
  IF n = 0 THEN { base }
  ELSE LET S == EditedFields(base, u, n - 1)
       IN S \cup UNION { { [f EXCEPT ![k] = v] : v \in FieldValues(u)[k] } :
                           f \in S, k \in FieldNames }

Off(b) == IF b THEN 1 ELSE 0

\* the environment of one operation: the injected fault, and what the reload
\* is told about the device size and the mounts
Envs == [fault : Faults, stat : StatSizes, mounts : MountSets]

EnvEdits(e) == Off(e.fault # NoFault) + Off(e.stat # DiskBytes) + Off(e.mounts # {})

\* the rows a caller can pass to createPartition as the free-space gap
Gaps(d) ==
  { r \in UNION { { getPartitionsDataDirectPlatform(d, stat, {}).rows[i] :
                      i \in 1..Len(getPartitionsDataDirectPlatform(d, stat, {}).rows) } :
                  stat \in StatSizes } : r.Unused }

(***************************************************************************)
(* State machine.                                                          *)
(***************************************************************************)
\* tuiState with no create form open
NoForm ==
  [showCreatePartitionForm |-> FALSE,
   createPartitionForm |-> [fields |-> << >>, selectedField |-> 0, isGPT |-> FALSE,
                            unusedPartition |-> NoPartition, diskSize |-> 0],
   showError |-> FALSE, errorMessage |-> << >>, showCreatePartitionConfirm |-> FALSE]

NoPre ==
  [op |-> "none", err |-> "", reloaded |-> FALSE, fault |-> NoFault, first |-> 0,
   rows |-> << >>]

NoOp ==
  [op |-> "none", fields |-> NoFields, unused |-> NoPartition, part |-> NoPartition,
   fault |-> NoFault, called |-> FALSE, opened |-> FALSE, err |-> "", io |-> << >>,
   reloaded |-> FALSE, rowsBefore |-> << >>, pre |-> NoPre, edits |-> 0, out |-> << >>,
   reads |-> 0, at |-> << >>]

\* what the next operation remembers of a performCreatePartition before it
Pre ==
  IF last.op # "performCreatePartition" THEN NoPre
  ELSE [op |-> last.op, err |-> last.err, reloaded |-> last.reloaded, fault |-> last.fault,
        first |-> parsePartitionForm([fields |-> last.fields, unusedPartition |-> last.unused,
                                      isGPT |-> TRUE, diskSize |-> 0]).preview.FirstLBA,
        rows |-> last.rowsBefore]

\* the TUI with the list of one of the devices `disks` loaded
InitFrom(disks) ==
  /\ disk \in disks
  /\ \E stat \in StatSizes, mounts \in MountSets :
       partitions = getPartitionsData(disk, stat, mounts).rows
  /\ prev = disk
  /\ last = NoOp
  /\ steps = 0
  /\ tui = NoForm

Init == InitFrom(InitialDisks)

\* the outcome r of a call recorded in `last`
Outcome(op, fields, unused, part, fault, r, reloaded, n) ==
  [op |-> op, fields |-> fields, unused |-> unused, part |-> part, fault |-> fault,
   called |-> TRUE, opened |-> r.opened, err |-> r.err, io |-> r.io,
   reloaded |-> reloaded, rowsBefore |-> partitions, pre |-> Pre,
   edits |-> last.edits + n, out |-> << >>, reads |-> 0, at |-> << >>]

\* a handler that returned before calling the mutator
Returned(op, part) ==
  [NoOp EXCEPT !.op = op, !.part = part, !.rowsBefore = partitions, !.pre = Pre,
               !.edits = last.edits]

\* createPartition called with a gap row and form fields of the caller's choice
CreatePartitionCall ==
  /\ \E unusedPart \in Gaps(disk) :
       \E base \in { [initCreatePartitionForm(<< >>, unusedPart).fields EXCEPT
                       !.number = TextEmpty, !.sizeOrEnd = TextNum(unusedPart.FirstLBA)] } :
         \E fields \in EditedFields(base, unusedPart, MaxEdits - last.edits),
            fault \in Faults :
           \E n \in { Edits(fields, base) + Off(fault # NoFault) } :
             /\ last.edits + n <= MaxEdits
             /\ \E r \in { createPartition(disk, unusedPart, fields, fault) } :
                  /\ disk' = r.disk
                  /\ last' = Outcome("createPartition", fields, unusedPart, NoPartition,
                                     fault, r, FALSE, n)
  /\ prev' = disk
  /\ steps' = steps + 1
  /\ UNCHANGED tui
  /\ UNCHANGED partitions

\* deletePartition called with a PartitionInfo of the caller's choice
DeletePartitionCall ==
  /\ \E number \in 0..(NumEntries + 2), mounted \in BOOLEAN, fault \in Faults :
       \E n \in { Off(number # 1) + Off(mounted) + Off(fault # NoFault) } :
         /\ last.edits + n <= MaxEdits
         /\ \E part \in { [NoPartition EXCEPT !.Number = number, !.Mounted = mounted] } :
              \E r \in { deletePartition(disk, part, fault) } :
                /\ disk' = r.disk
                /\ last' = Outcome("deletePartition", NoFields, NoPartition, part, fault,
                                   r, FALSE, n)
  /\ prev' = disk
  /\ steps' = steps + 1
  /\ UNCHANGED tui
  /\ UNCHANGED partitions

\* the list shown after an operation that returned r: reloaded when the
\* operation and the reload both succeed, kept otherwise
Reloaded(r, reload) == IF r.err = "" /\ reload.err = "" THEN reload.rows ELSE partitions

\* the create form opened on an Unused row, edited, validated with Enter,
\* confirmed: performCreatePartition
performCreatePartition ==
  /\ \E sel \in 1..Len(partitions) :
       /\ partitions[sel].Unused
       /\ \E form0 \in { initCreatePartitionForm(partitions, partitions[sel]) } :
            \E base \in { [form0.fields EXCEPT
                            !.sizeOrEnd = TextNum(partitions[sel].FirstLBA)] } :
              \E fields \in EditedFields(base, partitions[sel], MaxEdits - last.edits),
                 e \in Envs :
                \E n \in { Edits(fields, base) + EnvEdits(e) } :
                  /\ last.edits + n <= MaxEdits
                  /\ validateCreatePartitionForm([form0 EXCEPT !.fields = fields])
                  /\ \E r \in { createPartition(disk, partitions[sel], fields, e.fault) } :
                       \E reload \in { getPartitionsData(r.disk, e.stat, e.mounts) } :
                         /\ disk' = r.disk
                         /\ partitions' = Reloaded(r, reload)
                         /\ last' = Outcome("performCreatePartition", fields,
                                            partitions[sel], NoPartition, e.fault, r,
                                            r.err = "" /\ reload.err = "", n)
  /\ prev' = disk
  /\ steps' = steps + 1
  /\ UNCHANGED tui

\* Delete confirmed on row selectedPartitionIdx: performDelete
performDelete ==
  /\ \E selectedPartitionIdx \in 0..Max(Len(partitions) - 1, 0), e \in Envs :
       /\ last.edits + EnvEdits(e) <= MaxEdits
       /\ IF Len(partitions) = 0 \/ selectedPartitionIdx >= Len(partitions)
          THEN /\ EnvEdits(e) = 0
               /\ last' = Returned("performDelete", NoPartition)
               /\ UNCHANGED << disk, partitions >>
          ELSE \E selectedPart \in { partitions[selectedPartitionIdx + 1] } :
                 IF selectedPart.Unused
                 THEN /\ EnvEdits(e) = 0
                      /\ last' = Returned("performDelete", selectedPart)
                      /\ UNCHANGED << disk, partitions >>
                 ELSE \E r \in { deletePartition(disk, selectedPart, e.fault) } :
                        \E reload \in { getPartitionsData(r.disk, e.stat, e.mounts) } :
                          /\ disk' = r.disk
                          /\ partitions' = Reloaded(r, reload)
                          /\ last' = Outcome("performDelete", NoFields, NoPartition,
                                             selectedPart, e.fault, r,
                                             r.err = "" /\ reload.err = "", EnvEdits(e))
  /\ prev' = disk
  /\ steps' = steps + 1
  /\ UNCHANGED tui

\* what a reader returned, recorded in `last`
Listed(op, r, n) ==
  [NoOp EXCEPT !.op = op, !.err = r.err, !.out = r.out, !.rowsBefore = partitions,
               !.pre = Pre, !.edits = last.edits + n]

\* listPartitions of the command line on the device
ListPartitionsCall ==
  /\ \E stat \in StatSizes :
       \E n \in { Off(stat # DiskBytes) } :
         /\ last.edits + n <= MaxEdits
         /\ \E r \in { listPartitions(disk, stat) } :
              last' = Listed("listPartitions", r, n)
  /\ prev' = disk
  /\ steps' = steps + 1
  /\ UNCHANGED tui
  /\ UNCHANGED << disk, partitions >>

\* listPartitionsSafe of the TUI on the device
ListPartitionsSafeCall ==
  /\ \E stat \in StatSizes :
       \E n \in { Off(stat # DiskBytes) } :
         /\ last.edits + n <= MaxEdits
         /\ \E r \in { listPartitionsSafe(disk, stat) } :
              last' = Listed("listPartitionsSafe", r, n)
  /\ prev' = disk
  /\ steps' = steps + 1
  /\ UNCHANGED tui
  /\ UNCHANGED << disk, partitions >>

\* Enter on the disk list: the partition list is loaded, nil on an error
handleKeyEvent ==
  /\ \E e \in Envs :
       /\ e.fault = NoFault
       /\ last.edits + EnvEdits(e) <= MaxEdits
       /\ \E r \in { getPartitionsData(disk, e.stat, e.mounts) } :
            /\ partitions' = IF r.err # "" THEN << >> ELSE r.rows
            /\ last' = Listed("getPartitionsData", [err |-> r.err, out |-> r.rows],
                              EnvEdits(e))
  /\ prev' = disk
  /\ steps' = steps + 1
  /\ UNCHANGED tui
  /\ UNCHANGED disk

Next ==
  \/ steps < MaxOps /\ CreatePartitionCall
  \/ steps < MaxOps /\ DeletePartitionCall
  \/ steps < MaxOps /\ performCreatePartition
  \/ steps < MaxOps /\ performDelete

Spec == Init /\ [][Next]_vars

\* the direct calls of the mutators, and the readers
NextCalls ==
  \/ steps < MaxOps /\ CreatePartitionCall
  \/ steps < MaxOps /\ DeletePartitionCall
  \/ steps < MaxOps /\ ListPartitionsCall
  \/ steps < MaxOps /\ ListPartitionsSafeCall
  \/ steps < MaxOps /\ handleKeyEvent

SpecCalls == Init /\ [][NextCalls]_vars

(***************************************************************************)
(* Vocabulary of the properties.                                           *)
(***************************************************************************)
Created == last.called /\ last.op \in { "createPartition", "performCreatePartition" }

Deleted == last.called /\ last.op \in { "deletePartition", "performDelete" }

\* the device carried a GPT / an MBR with a valid signature before the call
WasGPT == AsHeader(prev[GPTHeaderLBA]).Signature = "EFI PART"

WasMBR == ~WasGPT /\ AsMBR(prev[0]).Signature = MBRSignature

\* the preview createPartition computed from the request
Requested ==
  parsePartitionForm([fields |-> last.fields, unusedPartition |-> last.unused,
                      isGPT |-> TRUE, diskSize |-> 0]).preview

\* the primary header pointed at a backup header that was there
BackupWasIntact ==
  /\ AsHeader(prev[GPTHeaderLBA]).BackupLBA = BackupHeaderLBA
  /\ AsHeader(prev[BackupHeaderLBA]).Signature = "EFI PART"

\* the primary entry array before and after the call
OldTable == ReadSectors(prev, AsHeader(prev[GPTHeaderLBA]).PartitionEntryLBA, NumEntries)

NewTable == ReadSectors(disk, AsHeader(prev[GPTHeaderLBA]).PartitionEntryLBA, NumEntries)

FreeSlots == { i \in 1..NumEntries : SlotEmpty(OldTable[i]) }

\* the messages of the mutators' own failed writes
WriteErrors ==
  { "error writing GPT entries", "error writing GPT header",
    "error writing backup GPT entries", "error writing backup GPT header",
    "error writing MBR" }

validateGPTHeaderCRC(s) ==
  LET h == AsHeader(s)
  IN ChecksumIEEE(HeaderBytes([h EXCEPT !.CRC32 = 0], h.HeaderSize)) = h.CRC32

validateGPTEntriesCRC(entries, expectedCRC) == ChecksumIEEE(TableBytes(entries)) = expectedCRC

(***************************************************************************)
(* C1: on a device with an intact GPT and no I/O failure, a create that    *)
(* succeeds writes the new entry into a slot that was empty before the     *)
(* call - the requested slot or the first empty slot - and leaves every    *)
(* other slot, so every entry that existed, byte-for-byte as it was; with  *)
(* no empty slot it fails with the no-free-slot error.                     *)
(***************************************************************************)
C1_CreateFillsAnEmptySlot ==
  (Created /\ last.opened /\ WasGPT /\ BackupWasIntact /\ last.fault = NoFault) =>
    /\ last.err = "" =>
         \E s \in FreeSlots :
           /\ s = Requested.Number \/ \A j \in FreeSlots : s <= j
           /\ \A i \in 1..NumEntries : i # s => NewTable[i] = OldTable[i]
    /\ FreeSlots = {} => last.err = "no free partition slot available"

(***************************************************************************)
(* C2: after a GPT create or delete that returns no error the primary and  *)
(* the backup entry array are identical and both headers' array CRC and    *)
(* header CRC validate.                                                    *)
(***************************************************************************)
C2_PrimaryAndBackupAgree ==
  ((Created \/ Deleted) /\ last.opened /\ WasGPT /\ last.err = "") =>
    LET backupLBA == AsHeader(prev[GPTHeaderLBA]).BackupLBA
        primary == AsHeader(disk[GPTHeaderLBA])
        backup == AsHeader(disk[backupLBA])
        primaryArray == ReadSectors(disk, primary.PartitionEntryLBA, NumEntries)
        backupArray == ReadSectors(disk, backup.PartitionEntryLBA, NumEntries)
    IN /\ primaryArray = backupArray
       /\ validateGPTEntriesCRC(primaryArray, primary.PartEntryArrayCRC32)
       /\ validateGPTEntriesCRC(backupArray, backup.PartEntryArrayCRC32)
       /\ validateGPTHeaderCRC(disk[GPTHeaderLBA])
       /\ validateGPTHeaderCRC(disk[backupLBA])

(***************************************************************************)
(* C3: an MBR create or delete that succeeds leaves the boot code, the     *)
(* signature and the three entries it did not target, CHS bytes included,  *)
(* as they were on disk; reading sector 0 and writing it back reproduces   *)
(* the sector.                                                             *)
(***************************************************************************)
C3_MBRRewrittenVerbatim ==
  ((Created \/ Deleted) /\ last.opened /\ WasMBR /\ last.err = "") =>
    /\ disk[0].boot = prev[0].boot
       /\ disk[0].sig = prev[0].sig
       /\ \E t \in 1..MBRSlots :
            \A i \in 1..MBRSlots : i # t => disk[0].parts[i] = prev[0].parts[i]
    /\ MBRSector(AsMBR(prev[0])) = prev[0]

(***************************************************************************)
(* The round trip of the TUI on a device with an intact GPT: one create,   *)
(* then deletes.                                                           *)
(***************************************************************************)
InitInverse == Init /\ disk \in { GPTDisk(u, "ok") : u \in GPTTables }

NextInverse ==
  \/ steps = 0 /\ performCreatePartition
  \/ steps >= 1 /\ steps <= MaxOps /\ performDelete

SpecInverse == InitInverse /\ [][NextInverse]_vars

\* the real partitions of a reader list: number, first and last LBA, size,
\* type and name of every row that is not Unused
RECURSIVE RealRows(_)
RealRows(rows) ==
  IF Len(rows) = 0 THEN << >>
  ELSE (IF Head(rows).Unused THEN << >>
        ELSE << [Number |-> Head(rows).Number, FirstLBA |-> Head(rows).FirstLBA,
                 LastLBA |-> Head(rows).LastLBA, TotalSectors |-> Head(rows).TotalSectors,
                 Type |-> Head(rows).Type, Name |-> Head(rows).Name] >>)
       \o RealRows(Tail(rows))

(***************************************************************************)
(* C4: with no I/O failure, a create that succeeds, followed by the delete *)
(* of the row under which the reader lists the new partition, leaves the   *)
(* list of real partitions that was read before the create.                *)
(***************************************************************************)
C4_CreateThenDeleteRestores ==
  ( /\ last.op = "performDelete" /\ last.called /\ last.err = "" /\ last.reloaded
    /\ last.fault = NoFault /\ last.pre.fault = NoFault
    /\ last.pre.op = "performCreatePartition" /\ last.pre.err = "" /\ last.pre.reloaded
    /\ last.part.FirstLBA = last.pre.first ) =>
    RealRows(partitions) = RealRows(last.pre.rows)

\* the request of the last create call passes the form's validation
AcceptedByForm ==
  validateCreatePartitionForm([fields |-> last.fields, unusedPartition |-> last.unused,
                               isGPT |-> TRUE, diskSize |-> DiskBytes])

\* every non-empty entry has FirstLBA <= LastLBA, and the non-empty entries
\* occupy pairwise disjoint LBA ranges
WellFormedTable(table) ==
  LET used == { i \in 1..Len(table) : ~SlotEmpty(table[i]) }
      e(i) == AsEntry(table[i])
  IN /\ \A i \in used : e(i).FirstLBA <= e(i).LastLBA
     /\ \A i, j \in used :
          i # j => (e(i).LastLBA < e(j).FirstLBA \/ e(j).LastLBA < e(i).FirstLBA)

(***************************************************************************)
(* C5: on a device with an intact GPT whose entries are well formed, a     *)
(* create of a request the form accepts (end-LBA or size-with-unit, a size *)
(* of zero sectors included) or a delete, when it succeeds without I/O     *)
(* failure, leaves the entries well formed: first <= last and pairwise     *)
(* disjoint.  Creates that replaced an existing entry (C1) are left aside, *)
(* so that a violation shows an ill-formed entry the create added.         *)
(***************************************************************************)
C5_EntriesStayWellFormed ==
  ( /\ Created \/ Deleted
    /\ last.opened /\ last.err = "" /\ last.fault = NoFault
    /\ WasGPT /\ BackupWasIntact
    /\ WellFormedTable(OldTable)
    /\ Created =>
         /\ AcceptedByForm
         /\ \A i \in 1..NumEntries : SlotEmpty(OldTable[i]) \/ NewTable[i] = OldTable[i] ) =>
    WellFormedTable(NewTable)

\* the fields of the last create call parse
ParsedOK ==
  parsePartitionForm([fields |-> last.fields, unusedPartition |-> last.unused,
                      isGPT |-> TRUE, diskSize |-> 0]).err = ""

(***************************************************************************)
(* C6: createPartition itself enforces the free-space gap: a request that  *)
(* starts below the gap's first LBA or ends above its last LBA fails and   *)
(* writes nothing; a request that starts at the gap's first LBA and ends   *)
(* inside the gap succeeds on an intact GPT with a free slot.              *)
(***************************************************************************)
C6_CreateEnforcesGap ==
  (Created /\ last.op = "createPartition" /\ ParsedOK /\ last.fault = NoFault) =>
    /\ (Requested.FirstLBA < last.unused.FirstLBA
        \/ Requested.LastLBA > last.unused.LastLBA) =>
         (last.err # "" /\ disk = prev)
    /\ ( /\ WasGPT /\ BackupWasIntact /\ FreeSlots # {}
         /\ Requested.FirstLBA = last.unused.FirstLBA
         /\ Requested.FirstLBA <= Requested.LastLBA
         /\ Requested.LastLBA <= last.unused.LastLBA ) =>
         last.err = ""

\* the numbers under which the reader lists the logical partitions of the
\* device as it was before the call
LogicalNumbers ==
  LET rows == getMBRPartitionsData(prev, DiskBytes, {}).rows
      mbr == AsMBR(prev[0])
      primaries == { mbr.Partitions[i].FirstSector :
                       i \in { j \in 1..MBRSlots :
                                 /\ mbr.Partitions[j].Sectors # 0
                                 /\ ~isExtendedType(mbr.Partitions[j].Type) } }
  IN { rows[i].Number :
         i \in { j \in 1..Len(rows) :
                   ~rows[j].Unused /\ rows[j].FirstLBA \notin primaries } }

\* the number of the last delete call designates an extended container
DesignatesExtended ==
  LET mbr == AsMBR(prev[0])
      slot == NthPopulatedSlot(mbr, last.part.Number)
  IN slot # 0 /\ isExtendedType(mbr.Partitions[slot].Type)

(***************************************************************************)
(* C7: on an MBR device, with no I/O failure, a delete whose number is one *)
(* the reader gives to a logical partition, or designates an extended      *)
(* container, returns an error and leaves sector 0 as it was.              *)
(***************************************************************************)
C7_LogicalDeleteRefused ==
  ( /\ Deleted /\ last.opened /\ WasMBR /\ last.fault = NoFault
    /\ (last.part.Number \in LogicalNumbers \/ DesignatesExtended) ) =>
    (last.err # "" /\ disk[0] = prev[0])

(***************************************************************************)
(* C8: on an MBR device, with no I/O failure, a create that states a       *)
(* partition number outside 1..4, or one that names an occupied slot,      *)
(* returns an error and writes nothing; a create that succeeds changes no  *)
(* slot but the requested one.                                             *)
(***************************************************************************)
C8_MBRCreateValidatesSlot ==
  ( /\ Created /\ last.opened /\ WasMBR /\ ParsedOK /\ last.fault = NoFault
    /\ last.fields.number.t = "num" ) =>
    LET n == Requested.Number
        old == AsMBR(prev[0]).Partitions
        new == AsMBR(disk[0]).Partitions
    IN /\ (n \notin 1..MBRSlots \/ old[n].Sectors # 0) => (last.err # "" /\ disk = prev)
       /\ last.err = "" => \A i \in 1..MBRSlots : i # n => new[i] = old[i]

(***************************************************************************)
(* C9: a create or delete that returns an error other than the failure of  *)
(* one of its own writes leaves every sector of the device as it was.      *)
(***************************************************************************)
C9_FailureWritesNothing ==
  ((Created \/ Deleted) /\ last.err # "" /\ last.err \notin WriteErrors) => disk = prev

(***************************************************************************)
(* The delete operations alone, on devices that carry an intact GPT or an  *)
(* MBR, the list having been loaded with the device size known.            *)
(***************************************************************************)
InitDelete ==
  /\ Init
  /\ disk \in { GPTDisk(u, "ok") : u \in GPTTables } \cup { MBRDisk(f) : f \in MBRLayouts }
  /\ \E mounts \in MountSets : partitions = getPartitionsData(disk, DiskBytes, mounts).rows

NextDelete ==
  \/ steps < MaxOps /\ DeletePartitionCall
  \/ steps < MaxOps /\ performDelete

SpecDelete == InitDelete /\ [][NextDelete]_vars

(***************************************************************************)
(* C10: a delete of a partition reported as mounted returns the            *)
(* mounted-partition error before the device is opened, with no read or    *)
(* write and the device as it was; performDelete on an Unused row does not *)
(* call deletePartition, performs no read or write, and leaves the device  *)
(* and the list as they were.                                              *)
(***************************************************************************)
C10_DeleteFailsFast ==
  /\ (Deleted /\ last.part.Mounted) =>
       /\ last.err = "cannot delete mounted partition"
       /\ ~last.opened
       /\ last.io = << >>
       /\ disk = prev
  /\ (last.op = "performDelete" /\ last.part.Unused) =>
       /\ ~last.called
       /\ last.io = << >>
       /\ disk = prev
       /\ partitions = last.rowsBefore

\* performDelete was confirmed on a row the reader reported as mounted, on a
\* device that holds that partition
C10_MountedDeleteTried ==
  /\ last.op = "performDelete" /\ last.called /\ last.part.Mounted
  /\ last.part.Number >= 1 /\ ~last.part.Unused
  /\ last.err = "cannot delete mounted partition"

(***************************************************************************)
(* Devices whose primary GPT header declares a given HeaderSize.           *)
(***************************************************************************)
HeaderSizes == { 0, MinHeaderSize - 1, MinHeaderSize, SectorSize, SectorSize + 1 }

SizedDisk(used, size) ==
  [GPTDisk(used, "ok") EXCEPT ![GPTHeaderLBA].HeaderSize = size]

InitHeader == InitFrom({ SizedDisk(u, size) : u \in GPTTables, size \in HeaderSizes })

SpecHeader == InitHeader /\ [][NextCalls]_vars

\* the primary header declared a size below 92 or above the 512 bytes read
BadHeaderSize ==
  /\ WasGPT
  /\ \/ AsHeader(prev[GPTHeaderLBA]).HeaderSize < MinHeaderSize
     \/ AsHeader(prev[GPTHeaderLBA]).HeaderSize > SectorSize

(***************************************************************************)
(* C11: on a device whose GPT header declares a size below 92 or above     *)
(* 512, the readers (listPartitions, listPartitionsSafe,                   *)
(* getGPTPartitionsData) end with the invalid-header-size error, without a *)
(* panic and without a partition list, and a create or delete that reaches *)
(* the device returns an error (no panic) and leaves every sector as it    *)
(* was.                                                                    *)
(***************************************************************************)
C11_HeaderSizeValidated ==
  BadHeaderSize =>
    /\ last.op = "listPartitions" =>
         (last.err = "fatal: Invalid GPT header size" /\ last.out = << >>)
    /\ last.op = "listPartitionsSafe" =>
         (last.err = "invalid GPT header size" /\ last.out = << >>)
    /\ \A stat \in StatSizes, mounts \in MountSets :
         getGPTPartitionsData(prev, stat, mounts)
           = [err |-> "invalid GPT header size", rows |-> << >>]
    /\ ((Created \/ Deleted) /\ last.opened /\ last.fault = NoFault) =>
         (last.err \notin { "", "panic" } /\ disk = prev)

(***************************************************************************)
(* MBR devices whose extended container holds two EBRs, each with a link   *)
(* (the FirstSector of its second entry, relative to the container) of     *)
(* any kind: none (-1), back to the first EBR, to the second EBR, or past  *)
(* the end of the device.  readEBRChain is applied to them before any      *)
(* device is selected.                                                     *)
(***************************************************************************)
EBRLinks == { -1, 0, 2, DiskSectors }

ChainEBR(type, link) ==
  [EBRSector(type, 0) EXCEPT
     !.parts[2] = IF link < 0 THEN ZeroRawEntry
                  ELSE [Status |-> 0, chsFirst |-> 6, Type |-> 5, chsLast |-> 7,
                        FirstSector |-> link, Sectors |-> 2]]

ChainDisk(slot, type, link1, link2) ==
  [MBRDisk([i \in 1..MBRSlots |-> IF i = slot THEN "extended" ELSE "none"]) EXCEPT
     ![ExtendedLBA] = ChainEBR(type, link1),
     ![ExtendedLBA + 2] = ChainEBR(130, link2)]

ChainDisks ==
  { ChainDisk(slot, type, l1, l2) :
      slot \in 1..2, type \in { 0, 131 }, l1 \in EBRLinks, l2 \in EBRLinks }

InitEBR ==
  /\ disk \in ChainDisks
  /\ partitions = << >>
  /\ prev = disk
  /\ last = NoOp
  /\ steps = 0
  /\ tui = NoForm

\* the callers' call readEBRChain(file, sizeBytes, sectorSize, part.FirstSector)
\* for an extended entry of sector 0
readEBRChainCall ==
  \E sizeBytes \in StatSizes, i \in 1..MBRSlots :
    /\ AsMBR(disk[0]).Partitions[i].Sectors # 0
    /\ isExtendedType(AsMBR(disk[0]).Partitions[i].Type)
    /\ \E r \in { readEBRChain(disk, sizeBytes, AsMBR(disk[0]).Partitions[i].FirstSector) } :
         last' = [NoOp EXCEPT !.op = "readEBRChain", !.err = r.err,
                              !.out = r.parts, !.reads = r.reads, !.at = r.at,
                              !.edits = last.edits + Off(sizeBytes # DiskBytes)]
    /\ prev' = disk
    /\ steps' = steps + 1
    /\ UNCHANGED tui
    /\ UNCHANGED << disk, partitions >>

NextEBR == steps < MaxOps /\ readEBRChainCall

SpecEBR == InitEBR /\ [][NextEBR]_vars

\* the chain of the device leads back to an EBR already read
ChainCycles ==
  \E i \in 1..MBRSlots :
    LET base == AsMBR(disk[0]).Partitions[i].FirstSector
    IN /\ isExtendedType(AsMBR(disk[0]).Partitions[i].Type)
       /\ ebrWalk(disk, DiskBytes, base, base, 3).next \in { base, base + 2 }

(***************************************************************************)
(* C12: whatever the EBR chain of the device holds, a chain that links     *)
(* back to an earlier EBR or to itself included, readEBRChain returns      *)
(* after at most 128 sector reads.                                         *)
(***************************************************************************)
C12_EBRWalkTerminates ==
  last.op = "readEBRChain" => last.reads <= MaxHops

\* readEBRChain returned from a cyclic chain, cut at the hop bound
C12_CycleWalked ==
  /\ last.op = "readEBRChain" /\ last.err = ""
  /\ ChainCycles
  /\ last.reads = MaxHops
  /\ Len(last.out) = MaxHops

(***************************************************************************)
(* The list a reader returned: its real rows and where the last one ends.  *)
(***************************************************************************)
ListedRows == last.op = "getPartitionsData" /\ last.err = ""

RealListed == SelectSeq(partitions, LAMBDA p : ~p.Unused)

LastRealEnd ==
  IF Len(RealListed) = 0 THEN IF WasGPT THEN 33 ELSE 0
  ELSE CHOOSE e \in { RealListed[i].FirstLBA + RealListed[i].TotalSectors - 1 :
                        i \in 1..Len(RealListed) } :
         \A i \in 1..Len(RealListed) :
           RealListed[i].FirstLBA + RealListed[i].TotalSectors - 1 <= e

(***************************************************************************)
(* C13: on a device of D sectors whose last real partition ends at LBA E   *)
(* before the last sector (E = 33 for a GPT and 0 for an MBR without       *)
(* partitions), the list the reader returns is the real partitions         *)
(* followed by exactly one Unused row with FirstLBA = E + 1 and            *)
(* LastLBA = D - 1.                                                        *)
(***************************************************************************)
C13_TrailingUnusedReported ==
  (ListedRows /\ LastRealEnd + 1 < DiskSectors) =>
    /\ Len(partitions) = Len(RealListed) + 1
    /\ \A i \in 1..Len(RealListed) : ~partitions[i].Unused
    /\ partitions[Len(partitions)].Unused
    /\ partitions[Len(partitions)].FirstLBA = LastRealEnd + 1
    /\ partitions[Len(partitions)].LastLBA = DiskSectors - 1

\* the populated slots of the MBR the reader read
PopulatedSlots ==
  { i \in 1..MBRSlots : AsMBR(prev[0]).Partitions[i].Type # 0
                          \/ AsMBR(prev[0]).Partitions[i].Sectors # 0 }

\* the slot numbers the create form offers for the list on screen
OfferedSlots ==
  LET a == initCreatePartitionForm(partitions, NoPartition).availableMBRSlots
  IN { a[i] : i \in 1..Len(a) }

StatusText(status) == IF status = 128 THEN "Active" ELSE "Inactive"

(***************************************************************************)
(* C14: after the reader has listed an MBR device with an empty slot, the  *)
(* slot numbers the create form offers are exactly the on-disk slots whose *)
(* entry is empty; and when slot k alone is populated, with a primary      *)
(* partition, the list holds exactly one real partition, with that entry's *)
(* status (active iff the status byte is 0x80), type and sector range.     *)
(***************************************************************************)
C14_MBRSlotsReadBack ==
  (ListedRows /\ WasMBR /\ PopulatedSlots # 1..MBRSlots) =>
    /\ OfferedSlots = (1..MBRSlots) \ PopulatedSlots
    /\ \A k \in 1..MBRSlots :
         LET e == AsMBR(prev[0]).Partitions[k]
         IN (PopulatedSlots = { k } /\ ~isExtendedType(e.Type)) =>
              /\ Len(RealListed) = 1
              /\ RealListed[1].Status = StatusText(e.Status)
              /\ RealListed[1].Type = mbrTypeString(e.Type)
              /\ RealListed[1].FirstLBA = e.FirstSector
              /\ RealListed[1].TotalSectors = e.Sectors

(***************************************************************************)
(* The readers on every initial device and on GPT devices one of whose     *)
(* entries has a type GUID but the first LBA 0.                            *)
(***************************************************************************)
NullStartEntry(i) == [ForeignEntry(i) EXCEPT !.FirstLBA = 0]

NullStartDisks ==
  { GPTDiskOf([i \in 1..NumEntries |->
                 IF ~used[i] THEN ZeroSector
                 ELSE IF i = z THEN EntrySector(NullStartEntry(i))
                 ELSE EntrySector(ForeignEntry(i))], "ok") :
      used \in GPTTables, z \in 1..NumEntries }

InitRead == InitFrom(InitialDisks \cup NullStartDisks)

NextRead ==
  \/ steps < MaxOps /\ ListPartitionsCall
  \/ steps < MaxOps /\ ListPartitionsSafeCall
  \/ steps < MaxOps /\ handleKeyEvent

SpecRead == InitRead /\ [][NextRead]_vars

\* the GPT slots with a type GUID, and those the reader's filter lets through
TypedSlots == { i \in 1..NumEntries : ~isAllZero(AsEntry(OldTable[i]).TypeGUID) }

ListableSlots == { i \in 1..NumEntries : ~SlotEmpty(OldTable[i]) }

\* the real rows are the entries of the slots S, in slot order, numbered 1..N
GPTRowsAre(S) ==
  /\ Len(RealListed) = Cardinality(S)
  /\ \A k \in 1..Len(RealListed) :
       \E i \in S :
         /\ Cardinality({ j \in S : j < i }) = k - 1
         /\ RealListed[k].Number = k
         /\ partitions[k] = RealListed[k]
         /\ RealListed[k].Type = guidToString(AsEntry(OldTable[i]).TypeGUID)
         /\ RealListed[k].FirstLBA = AsEntry(OldTable[i]).FirstLBA
         /\ RealListed[k].LastLBA = AsEntry(OldTable[i]).LastLBA

\* what slot i of the MBR stands for: nothing, itself, or the logical
\* partitions of its EBR chain
MBRSlotParts(i) ==
  LET e == AsMBR(prev[0]).Partitions[i]
  IN IF e.Sectors = 0 THEN << >>
     ELSE IF isExtendedType(e.Type) THEN readEBRChain(prev, 0, e.FirstSector).parts
     ELSE << [Status |-> e.Status, Type |-> e.Type,
              FirstSector |-> e.FirstSector, Sectors |-> e.Sectors] >>

MBRParts == MBRSlotParts(1) \o MBRSlotParts(2) \o MBRSlotParts(3) \o MBRSlotParts(4)

MBRRowsAreParts ==
  /\ Len(RealListed) = Len(MBRParts)
  /\ \A k \in 1..Len(RealListed) :
       /\ RealListed[k].Number = k
       /\ partitions[k] = RealListed[k]
       /\ RealListed[k].Type = mbrTypeString(MBRParts[k].Type)
       /\ RealListed[k].FirstLBA = MBRParts[k].FirstSector
       /\ RealListed[k].TotalSectors = MBRParts[k].Sectors

NoMBRSignature == ~WasGPT /\ AsMBR(prev[0]).Signature # MBRSignature

(***************************************************************************)
(* C16: the readers and the mutators all take the device for a GPT exactly *)
(* when LBA 1 starts with "EFI PART" and for an MBR otherwise.  A mutator  *)
(* never changes sector 0 of a GPT device, whatever scheme the request     *)
(* names; on a device that is not GPT and lacks the signature 0xAA55 the   *)
(* mutators and the listers fail with the invalid-signature error and      *)
(* nothing is written; the rows the reader lists carry a type GUID on a    *)
(* GPT device and an MBR type byte otherwise.                              *)
(***************************************************************************)
C16_SchemeFromDisk ==
  /\ ((Created \/ Deleted) /\ last.opened) =>
       /\ WasGPT => disk[0] = prev[0]
       /\ (NoMBRSignature /\ last.fault = NoFault) =>
            (last.err = "invalid MBR signature" /\ disk = prev)
  /\ (last.op = "listPartitionsSafe" /\ NoMBRSignature) => last.err = "invalid MBR signature"
  /\ (last.op = "listPartitions" /\ NoMBRSignature) => last.err = "fatal: Invalid MBR signature"
  /\ ListedRows =>
       \A k \in 1..Len(RealListed) :
         Len(RealListed[k].Type) = IF WasGPT THEN 36 ELSE 4

(***************************************************************************)
(* GPT devices one of whose entries was created by the tool itself at an   *)
(* earlier time, so that it carries the GUID generateGUID gave it.         *)
(***************************************************************************)
OwnEntry(i) == [ForeignEntry(i) EXCEPT !.UniqueGUID = generateGUID]

OwnDisks ==
  { GPTDiskOf([i \in 1..NumEntries |->
                 IF ~used[i] THEN ZeroSector
                 ELSE IF i = own THEN EntrySector(OwnEntry(i))
                 ELSE EntrySector(ForeignEntry(i))], "ok") :
      used \in GPTTables, own \in 0..NumEntries }

InitGUID == InitFrom(OwnDisks)

SpecGUID == InitGUID /\ [][Next]_vars

\* no two non-empty entries of the table share their UniqueGUID
DistinctGUIDs(table) ==
  \A i, j \in 1..Len(table) :
    (i # j /\ ~SlotEmpty(table[i]) /\ ~SlotEmpty(table[j])) =>
      AsEntry(table[i]).UniqueGUID # AsEntry(table[j]).UniqueGUID

(***************************************************************************)
(* C17: after a successful create on a GPT whose non-empty entries had     *)
(* pairwise distinct UniqueGUIDs, no two non-empty entries share the same  *)
(* UniqueGUID.                                                             *)
(***************************************************************************)
C17_UniqueGUIDsStayDistinct ==
  ( /\ Created /\ last.opened /\ last.err = "" /\ last.fault = NoFault
    /\ WasGPT /\ BackupWasIntact
    /\ DistinctGUIDs(OldTable) ) =>
    DistinctGUIDs(NewTable)

\* two GUID strings that differ at most in the case of their hex digits
SameGUIDText(a, b) ==
  /\ Len(a) = Len(b)
  /\ \A i \in 1..Len(a) :
       \/ a[i] = b[i]
       \/ IsHex(a[i]) /\ IsHex(b[i]) /\ HexVal(a[i]) = HexVal(b[i])

(***************************************************************************)
(* C18: for the GUID string s the lookup table lists for the type name of  *)
(* a successful GPT create, guidToString(parseGUID(s)) is s up to case,    *)
(* and the type GUID read back from the entry the create wrote is s up to  *)
(* case.                                                                   *)
(***************************************************************************)
C18_GUIDCodecSymmetric ==
  ( /\ Created /\ last.opened /\ last.err = "" /\ last.fault = NoFault
    /\ WasGPT /\ BackupWasIntact ) =>
    /\ SameGUIDText(guidToString(parseGUID(guidMap(last.fields.type))),
                    guidMap(last.fields.type))
    /\ \A i \in 1..NumEntries :
         NewTable[i] # OldTable[i] =>
           SameGUIDText(guidToString(AsEntry(NewTable[i]).TypeGUID),
                        guidMap(last.fields.type))

\* the entry lies inside the usable area the primary header declared
InsideUsableArea(e) ==
  /\ AsHeader(prev[GPTHeaderLBA]).FirstUsableLBA <= e.FirstLBA
  /\ e.LastLBA <= AsHeader(prev[GPTHeaderLBA]).LastUsableLBA

(***************************************************************************)
(* C19: the entry a successful create writes to a GPT lies inside the      *)
(* usable area of the header, FirstUsableLBA <= FirstLBA and               *)
(* LastLBA <= LastUsableLBA; and the Unused row the reader offers on a     *)
(* GPT ends no later than LastUsableLBA.                                   *)
(***************************************************************************)
C19_CreatedInsideUsableArea ==
  /\ ( /\ Created /\ last.opened /\ last.err = "" /\ last.fault = NoFault
       /\ WasGPT /\ BackupWasIntact ) =>
       \A i \in 1..NumEntries :
         (NewTable[i] # OldTable[i] /\ ~SlotEmpty(NewTable[i])) =>
           InsideUsableArea(AsEntry(NewTable[i]))
  /\ (ListedRows /\ WasGPT /\ BackupWasIntact) =>
       \A k \in 1..Len(partitions) :
         partitions[k].Unused =>
           partitions[k].LastLBA <= AsHeader(prev[GPTHeaderLBA]).LastUsableLBA

\* the slots of the table that held an entry before the call
UsedSlots == { i \in 1..NumEntries : ~SlotEmpty(OldTable[i]) }

\* the header sector is as it was but for its two CRC fields
OnlyCRCsChanged(old, new) ==
  \/ new = old
  \/ /\ old.kind = "hdr" /\ new.kind = "hdr"
     /\ new = [old EXCEPT !.CRC32 = new.CRC32,
                          !.PartEntryArrayCRC32 = new.PartEntryArrayCRC32]

BackupHeaderLBAOf(d) == AsHeader(d[GPTHeaderLBA]).BackupLBA

(***************************************************************************)
(* C20: without I/O error, deleteGPTPartition with number N on a table     *)
(* with at least N non-empty entries zeroes exactly the slot of the N-th   *)
(* non-empty entry in slot order, every other entry of the primary array   *)
(* staying as it was, and changes nothing but the two CRC fields in the    *)
(* primary header and in the backup header; with fewer than N non-empty    *)
(* entries it returns "partition not found" and the device is unchanged.   *)
(***************************************************************************)
C20_DeleteZeroesNthEntry ==
  (Deleted /\ last.opened /\ WasGPT /\ last.fault = NoFault) =>
    IF last.part.Number \in 1..Cardinality(UsedSlots)
    THEN /\ \E i \in UsedSlots :
              /\ Cardinality({ j \in UsedSlots : j < i }) = last.part.Number - 1
              /\ NewTable = [OldTable EXCEPT ![i] = ZeroSector]
         /\ OnlyCRCsChanged(prev[GPTHeaderLBA], disk[GPTHeaderLBA])
         /\ BackupHeaderLBAOf(prev) < DiskSectors =>
              OnlyCRCsChanged(prev[BackupHeaderLBAOf(prev)], disk[BackupHeaderLBAOf(prev)])
    ELSE last.err = "partition not found" /\ disk = prev

\* the write calls of the last operation, in the order they were made
Writes == SelectSeq(last.io, LAMBDA x : x.op = "write")

\* position in the log of the first write call (past the end when none)
FirstWriteAt ==
  IF \E i \in 1..Len(last.io) : last.io[i].op = "write"
  THEN CHOOSE i \in 1..Len(last.io) :
         last.io[i].op = "write" /\ \A j \in 1..(i - 1) : last.io[j].op # "write"
  ELSE Len(last.io) + 1

\* a successful read of n sectors at lba was logged before position i
ReadBefore(i, lba, n) ==
  \E j \in 1..(i - 1) : last.io[j] = [op |-> "read", lba |-> lba, n |-> n, ok |-> TRUE]

\* isGPTDiskSafe answered true / false: the GPT or the MBR mutator ran
TookGPTPath == last.opened /\ WasGPT /\ last.io[1].ok

TookMBRPath == last.opened /\ ~TookGPTPath

\* the four write steps of a GPT mutation: where each one goes, as the
\* headers on the device name the places, and the error of its failure
GPTWriteSteps ==
  LET header == AsHeader(prev[GPTHeaderLBA])
      backupHeader == IF header.BackupLBA \in LBAs THEN AsHeader(prev[header.BackupLBA])
                      ELSE ZeroHeader
  IN << [lba |-> header.PartitionEntryLBA, n |-> TableSectors(header),
         err |-> "error writing GPT entries"],
        [lba |-> GPTHeaderLBA, n |-> 1, err |-> "error writing GPT header"],
        [lba |-> backupHeader.PartitionEntryLBA, n |-> TableSectors(header),
         err |-> "error writing backup GPT entries"],
        [lba |-> header.BackupLBA, n |-> 1, err |-> "error writing backup GPT header"] >>

MBRWriteSteps == << [lba |-> 0, n |-> 1, err |-> "error writing MBR"] >>

\* the writes made are the first steps of `steps`, in order; all but the
\* last succeeded; a failed one ends the call with that step's error; a call
\* that returned nil made every step
FollowsSteps(steps_) ==
  /\ Len(Writes) <= Len(steps_)
  /\ \A i \in 1..Len(Writes) :
       /\ Writes[i].lba = steps_[i].lba /\ Writes[i].n = steps_[i].n
       /\ i < Len(Writes) => Writes[i].ok
       /\ ~Writes[i].ok => last.err = steps_[i].err
  /\ last.err = "" => Len(Writes) = Len(steps_)
  /\ last.err \in { steps_[i].err : i \in 1..Len(steps_) } =>
       Len(Writes) >= 1 /\ ~Writes[Len(Writes)].ok

(***************************************************************************)
(* C21: create and delete read, validate, and only then write.  On GPT     *)
(* the write calls are, in this order, the primary entry array, the        *)
(* primary header, the backup entry array and the backup header; no write  *)
(* is made before the header and the entry array have been read; a failed  *)
(* write is the last call and the error names its step; a call that        *)
(* returns nil made all four.  On MBR the only write is the one of sector  *)
(* 0, made after sector 0 was read.                                        *)
(***************************************************************************)
C21_WritesInFixedOrder ==
  ((Created \/ Deleted) /\ last.opened) =>
    /\ TookGPTPath =>
         /\ FollowsSteps(GPTWriteSteps)
         /\ Len(Writes) >= 1 =>
              /\ ReadBefore(FirstWriteAt, GPTHeaderLBA, 1)
              /\ ReadBefore(FirstWriteAt, GPTWriteSteps[1].lba, GPTWriteSteps[1].n)
    /\ TookMBRPath =>
         /\ FollowsSteps(MBRWriteSteps)
         /\ Len(Writes) >= 1 => ReadBefore(FirstWriteAt, 0, 1)

\* a GPT delete whose third write failed: two writes done, the call stopped
C21_StoppedAtBackupEntries ==
  /\ Deleted /\ TookGPTPath
  /\ Len(Writes) = 3
  /\ last.err = "error writing backup GPT entries"

\* the GPT copy whose header is at hdrLBA on device d: its header passes
\* validateGPTHeaderCRC and the entry array it names passes
\* validateGPTEntriesCRC
CopyTable(d, hdrLBA) ==
  LET h == AsHeader(d[hdrLBA])
  IN IF h.PartitionEntryLBA + TableSectors(h) <= DiskSectors
     THEN ReadSectors(d, h.PartitionEntryLBA, TableSectors(h))
     ELSE << >>

CopyValid(d, hdrLBA) ==
  LET h == AsHeader(d[hdrLBA])
  IN /\ h.Signature = "EFI PART"
     /\ headerCRCOutcome(d[hdrLBA]) = ""
     /\ h.PartitionEntryLBA + TableSectors(h) <= DiskSectors
     /\ validateGPTEntriesCRC(CopyTable(d, hdrLBA), h.PartEntryArrayCRC32)

\* both copies were valid before the call
BothCopiesWereValid ==
  /\ BackupWasIntact
  /\ CopyValid(prev, GPTHeaderLBA)
  /\ CopyValid(prev, BackupHeaderLBA)

\* the call ended after the primary header write and before a backup write
\* took effect: the backup header could not be read, or the write of the
\* backup entry array failed
StoppedBetweenCopies ==
  /\ (Created \/ Deleted) /\ TookGPTPath
  /\ Len(Writes) >= 2 /\ Writes[2].ok
  /\ Len(Writes) = 2 \/ (Len(Writes) = 3 /\ ~Writes[3].ok)

\* table new is table old after the mutation the call was asked for
IsMutationOf(old, new) ==
  /\ Len(new) = Len(old)
  /\ \E i \in 1..Len(old) :
       /\ \A j \in 1..Len(old) : j # i => new[j] = old[j]
       /\ IF Deleted THEN ~SlotEmpty(old[i]) /\ new[i] = ZeroSector
          ELSE /\ AsEntry(new[i]).FirstLBA = Requested.FirstLBA
               /\ AsEntry(new[i]).LastLBA = Requested.LastLBA
               /\ ~isAllZero(AsEntry(new[i]).TypeGUID)

(***************************************************************************)
(* C22: when a GPT create or delete on a device with two valid copies      *)
(* stops after the primary header write and before the first backup write  *)
(* (an I/O error there; a crash there leaves the same device), the primary *)
(* header and entry array pass CRC validation and hold the mutated table,  *)
(* and the backup header and entry array still pass CRC validation and     *)
(* hold the table as it was before the call.                               *)
(***************************************************************************)
C22_PrimaryAheadOfValidBackup ==
  (StoppedBetweenCopies /\ BothCopiesWereValid) =>
    /\ CopyValid(disk, GPTHeaderLBA)
    /\ IsMutationOf(CopyTable(prev, GPTHeaderLBA), CopyTable(disk, GPTHeaderLBA))
    /\ CopyValid(disk, BackupHeaderLBA)
    /\ disk[BackupHeaderLBA] = prev[BackupHeaderLBA]
    /\ CopyTable(disk, BackupHeaderLBA) = CopyTable(prev, GPTHeaderLBA)

\* a create stopped by the failed read of the backup header
C22_CreateStoppedAtBackupRead ==
  /\ StoppedBetweenCopies /\ BothCopiesWereValid
  /\ Created
  /\ last.err = "error reading backup GPT header"

(***************************************************************************)
(* EBR chains whose second entry ends the walk, or leads to a sector that  *)
(* is no EBR.                                                              *)
(***************************************************************************)
\* an EBR whose second entry has the given type and sector count
StopEBR(e2Type, e2Sectors) ==
  [EBRSector(131, 0) EXCEPT
     !.parts[2] = [Status |-> 0, chsFirst |-> 6, Type |-> e2Type, chsLast |-> 7,
                   FirstSector |-> 2, Sectors |-> e2Sectors]]

StopDisks ==
  { [ChainDisk(1, 131, -1, -1) EXCEPT ![ExtendedLBA] = StopEBR(t, n)] :
      t \in { 0, 5, 15, 131 }, n \in { 0, 2 } }
    \cup { ChainDisk(1, 131, 1, -1), ChainDisk(2, 131, 2, 1) }

InitChain ==
  /\ disk \in ChainDisks \cup StopDisks
  /\ partitions = << >>
  /\ prev = disk
  /\ last = NoOp
  /\ steps = 0
  /\ tui = NoForm

SpecChain == InitChain /\ [][NextEBR]_vars

\* start of the extended partition of sector 0 (baseLBA of the call)
ChainBase ==
  AsMBR(prev[0]).Partitions[
    CHOOSE i \in 1..MBRSlots : isExtendedType(AsMBR(prev[0]).Partitions[i].Type)].FirstSector

\* the two entries of the EBR at LBA c
EBRFirst(c) == AsMBR(prev[c]).Partitions[1]

EBRSecond(c) == AsMBR(prev[c]).Partitions[2]

HasEBRSignature(c) == c < DiskSectors /\ AsMBR(prev[c]).Signature = MBRSignature

\* the second entry of the EBR at c ends the walk
EndsChain(c) ==
  EBRSecond(c).Type = 0 \/ EBRSecond(c).Sectors = 0 \/ ~isExtendedType(EBRSecond(c).Type)

\* positions of the walk whose EBR describes a logical partition
Describing ==
  { k \in 1..Len(last.at) :
      /\ HasEBRSignature(last.at[k])
      /\ EBRFirst(last.at[k]).Type # 0 /\ EBRFirst(last.at[k]).Sectors # 0 }

(***************************************************************************)
(* C23: readEBRChain reads the first EBR at baseLBA.  The logical          *)
(* partition described by the first entry of the EBR at LBA c starts at    *)
(* c + entry1.FirstSector; the EBR read after the one at c is at           *)
(* baseLBA + entry2.FirstSector, and it is read only when entry2 of c has  *)
(* an extended type and a non-zero sector count; an EBR whose second entry *)
(* has type 0, zero sectors or a non-extended type ends the walk without   *)
(* error; a sector read as EBR without the 0x55 0xAA signature ends it     *)
(* with the signature error.                                               *)
(***************************************************************************)
C23_EBRAddressing ==
  last.op = "readEBRChain" =>
    LET at == last.at
        K == Len(at)
    IN /\ K >= 1 /\ at[1] = ChainBase
       /\ \A k \in 1..(K - 1) :
            /\ HasEBRSignature(at[k]) /\ ~EndsChain(at[k])
            /\ at[k + 1] = ChainBase + EBRSecond(at[k]).FirstSector
       /\ at[K] < DiskSectors =>
            IF ~HasEBRSignature(at[K]) THEN last.err = "EBR signature missing"
            ELSE /\ last.err = ""
                 /\ EndsChain(at[K]) \/ K = MaxHops
       /\ last.err = "" =>
            /\ Len(last.out) = Cardinality(Describing)
            /\ \A k \in Describing :
                 LET j == Cardinality({ i \in Describing : i <= k })
                 IN /\ last.out[j].FirstSector = at[k] + EBRFirst(at[k]).FirstSector
                    /\ last.out[j].Sectors = EBRFirst(at[k]).Sectors
                    /\ last.out[j].Type = EBRFirst(at[k]).Type

\* a walk that went on from an EBR away from baseLBA: the link of that EBR
\* was taken from baseLBA, and the partition it describes from the EBR
C23_LinkFromSecondEBR ==
  /\ last.op = "readEBRChain" /\ last.err = ""
  /\ Len(last.at) >= 3 /\ Len(last.out) >= 2
  /\ last.at[2] # ChainBase
  /\ last.at[3] = ChainBase + EBRSecond(last.at[2]).FirstSector
  /\ last.at[3] # last.at[2] + EBRSecond(last.at[2]).FirstSector
  /\ last.out[2].FirstSector = last.at[2] + EBRFirst(last.at[2]).FirstSector
  /\ last.out[2].FirstSector # ChainBase + EBRFirst(last.at[2]).FirstSector

\* the delete handler passed a listed row to deletePartition, nothing failed
\* on the way and the row was not mounted
ShownRowDeleted ==
  /\ last.op = "performDelete" /\ last.called
  /\ last.fault = NoFault /\ ~last.part.Mounted

\* GPT entry / MBR primary entry e is the one row reports
GPTEntryShown(e, row) ==
  /\ e.FirstLBA = row.FirstLBA
  /\ e.LastLBA - e.FirstLBA + 1 = row.TotalSectors

MBREntryShown(e, row) ==
  /\ e.FirstSector = row.FirstLBA
  /\ e.Sectors = row.TotalSectors

(***************************************************************************)
(* C24: deletePartition called with a row the reader returned (not         *)
(* mounted, no I/O error) succeeds and removes the on-disk entry whose     *)
(* start LBA and sector count the row reports, and no other entry: on GPT  *)
(* (backup header intact) the slot of that entry is zeroed and every other *)
(* slot is as before; on MBR the primary slot of that entry is zeroed and  *)
(* every other slot is as before.                                          *)
(***************************************************************************)
C24_DeleteRemovesShownEntry ==
  ShownRowDeleted =>
    /\ (WasGPT /\ BackupWasIntact) =>
         /\ last.err = ""
         /\ \E i \in 1..NumEntries :
              /\ ~SlotEmpty(OldTable[i])
              /\ GPTEntryShown(AsEntry(OldTable[i]), last.part)
              /\ NewTable = [OldTable EXCEPT ![i] = ZeroSector]
    /\ WasMBR =>
         /\ last.err = ""
         /\ \E i \in 1..MBRSlots :
              /\ MBREntryShown(AsMBR(prev[0]).Partitions[i], last.part)
              /\ AsMBR(disk[0]).Partitions =
                   [AsMBR(prev[0]).Partitions EXCEPT ![i] = ZeroMBRPartition]

\* the sectors where the two copies of the table live: the primary header
\* and entry array, the backup entry array and the backup header
TableLBAs ==
  { GPTHeaderLBA, BackupHeaderLBA }
    \cup PrimaryEntryLBA..(PrimaryEntryLBA + NumEntries - 1)
    \cup BackupEntryLBA..(BackupEntryLBA + NumEntries - 1)

(***************************************************************************)
(* C25: a GPT create or delete changes no sector outside the primary       *)
(* header, the primary entry array, the backup entry array and the backup  *)
(* header; sector 0 stays as it was, also when the sector at BackupLBA     *)
(* holds no valid GPT header; and after a call that returned nil the       *)
(* primary header and entry array it wrote are a valid copy.               *)
(***************************************************************************)
C25_WritesOnlyTheTable ==
  ((Created \/ Deleted) /\ TookGPTPath) =>
    /\ \A l \in LBAs \ TableLBAs : disk[l] = prev[l]
    /\ disk[0] = prev[0]
    /\ (last.err = "" /\ CopyValid(prev, GPTHeaderLBA)) => CopyValid(disk, GPTHeaderLBA)

(***************************************************************************)
(* C26: on a device whose primary and backup copies are both valid and lie *)
(* in disjoint regions, after any prefix of the four writes of a create or *)
(* delete - the call ended by a failed write or read, or ran to the end -  *)
(* at least one copy is self-consistent: its header passes CRC validation  *)
(* and the entry-array CRC it stores matches the entry array on disk.      *)
(***************************************************************************)
C26_OneCopyAlwaysConsistent ==
  ((Created \/ Deleted) /\ TookGPTPath /\ BothCopiesWereValid) =>
    CopyValid(disk, GPTHeaderLBA) \/ CopyValid(disk, BackupHeaderLBA)

\* the call stopped after the first write: the primary array is new, its
\* header is not, and the backup copy is the consistent one
C26_StoppedAfterFirstWrite ==
  /\ (Created \/ Deleted) /\ TookGPTPath /\ BothCopiesWereValid
  /\ last.err = "error writing GPT header"
  /\ ~CopyValid(disk, GPTHeaderLBA)
  /\ CopyValid(disk, BackupHeaderLBA)

(***************************************************************************)
(* MBR devices whose extended container holds a chain that cannot be       *)
(* walked to its end, or describes no partition.                           *)
(***************************************************************************)
BrokenLinks == { -1, 1, DiskSectors }

BrokenChainDisks ==
  { ChainDisk(slot, type, l1, l2) :
      slot \in 1..2, type \in { 0, 131 }, l1 \in BrokenLinks \cup { 2 }, l2 \in BrokenLinks }

InitUnused == InitFrom(InitialDisks \cup BrokenChainDisks)

SpecUnused == InitUnused /\ [][NextRead]_vars

\* LBA ranges of the populated entries on the device: the non-empty GPT
\* entries; on an MBR the populated primary slots, an extended container
\* included, and the logical partitions of its chain
OnDiskRanges ==
  IF WasGPT
  THEN { [first |-> AsEntry(OldTable[i]).FirstLBA, last |-> AsEntry(OldTable[i]).LastLBA] :
           i \in ListableSlots }
  ELSE IF WasMBR
  THEN { [first |-> AsMBR(prev[0]).Partitions[i].FirstSector,
          last |-> AsMBR(prev[0]).Partitions[i].FirstSector
                   + AsMBR(prev[0]).Partitions[i].Sectors - 1] :
           i \in { j \in 1..MBRSlots : AsMBR(prev[0]).Partitions[j].Sectors # 0 } }
       \cup { [first |-> MBRParts[k].FirstSector,
               last |-> MBRParts[k].FirstSector + MBRParts[k].Sectors - 1] :
               k \in 1..Len(MBRParts) }
  ELSE {}

(***************************************************************************)
(* C27: the LBA range of an Unused row the reader returns is disjoint from *)
(* the range of every populated entry on the device, the extended          *)
(* container of an MBR and its logical partitions included.                *)
(***************************************************************************)
C27_UnusedOverlapsNoEntry ==
  ListedRows =>
    \A k \in 1..Len(partitions) :
      partitions[k].Unused =>
        \A r \in OnDiskRanges :
          r.last < partitions[k].FirstLBA \/ r.first > partitions[k].LastLBA

(***************************************************************************)
(* The byte size and the probe offset of an MBR row.  FirstSector and      *)
(* Sectors are uint32; a uint32 is held as its two 16-bit halves           *)
(* << low, high >>, a 64-bit value as << low, middle, high >> (the values  *)
(* met here stay below 2^48).                                              *)
(***************************************************************************)
Limb == 65536

\* x * z in uint32 arithmetic, z a sector size below 2^16: the product
\* modulo 2^32
MulUint32(x, z) ==
  LET p0 == x[1] * z
      p1 == x[2] * z + p0 \div Limb
  IN << p0 % Limb, p1 % Limb >>

\* uint64(v) / int64(v) of a uint32 v: zero-extended
Widen(v) == << v[1], v[2], 0 >>

\* formatBytes(part.Sectors * uint32(sectorSize)): the byte count formatted
mbrSizeBytes(part, sectorSize) == Widen(MulUint32(part.Sectors, sectorSize))

\* detectFileSystem(file, int64(part.FirstSector*uint32(sectorSize))): the
\* offset read
mbrProbeOffset(part, sectorSize) == Widen(MulUint32(part.FirstSector, sectorSize))

\* the uint32 values tried: around 0, around 2^23 (4 GiB of 512-byte
\* sectors), around 2^20 (4 GiB of 4096-byte sectors), 2^31 and 2^32 - 1
Uint32Samples ==
  { << 0, 0 >>, << 1, 0 >>, << 2048, 0 >>, << 65535, 15 >>, << 0, 16 >>,
    << 65535, 127 >>, << 0, 128 >>, << 1, 128 >>, << 0, 32768 >>, << 65535, 65535 >> }

SectorSizes == { 512, 4096 }

InitSize ==
  /\ disk = BlankDisk
  /\ partitions = << >>
  /\ prev = disk
  /\ last = NoOp
  /\ steps = 0
  /\ tui = NoForm

\* the reader's loop body on one primary entry of sector 0: the size it
\* reports and the offset it probes
mbrRowSizeCall ==
  /\ \E F \in Uint32Samples, S \in Uint32Samples, Z \in SectorSizes :
       \E part \in { [Status |-> 0, Type |-> 131, FirstSector |-> F, Sectors |-> S] } :
         /\ part.Sectors # << 0, 0 >>
         /\ last' = [NoOp EXCEPT !.op = "mbrRow",
                                 !.out = << part, Z, mbrSizeBytes(part, Z),
                                            mbrProbeOffset(part, Z) >>]
  /\ prev' = disk
  /\ steps' = steps + 1
  /\ UNCHANGED tui
  /\ UNCHANGED << disk, partitions >>

NextSize == steps < MaxOps /\ mbrRowSizeCall

SpecSize == InitSize /\ [][NextSize]_vars

\* x * z computed without wrap-around, as a 64-bit value
FullProduct(x, z) ==
  LET p0 == x[1] * z
      p1 == x[2] * z + p0 \div Limb
  IN << p0 % Limb, p1 % Limb, p1 \div Limb >>

(***************************************************************************)
(* C28: for an MBR partition of S sectors starting at sector F, with       *)
(* sector size Z, the byte size the reader reports is S*Z and the byte     *)
(* offset it probes for the filesystem signature is F*Z, also when the     *)
(* product is 2^32 or more.                                                *)
(***************************************************************************)
C28_NoWrapAround ==
  last.op = "mbrRow" =>
    /\ last.out[3] = FullProduct(last.out[1].Sectors, last.out[2])
    /\ last.out[4] = FullProduct(last.out[1].FirstSector, last.out[2])

(***************************************************************************)
(* The create-partition form and its key handler.  A field value is the    *)
(* string itself, a sequence of one-character strings, so that Backspace   *)
(* and typing act on characters as the handler does.  The fields are       *)
(* indexed 0..5 as in the source.                                          *)
(***************************************************************************)
\* len(form.fields)
FieldCount == 6

GPTText == << "G", "P", "T" >>

MBRText == << "M", "B", "R" >>

\* the options of the Partition Scheme field
SchemeOptions == << GPTText, MBRText >>

\* the options of the Type field
TypeOptions ==
  << << "L", "i", "n", "u", "x", " ", "F", "i", "l", "e", "s", "y", "s", "t", "e", "m" >>,
     << "L", "i", "n", "u", "x", " ", "S", "w", "a", "p" >>,
     << "E", "F", "I", " ", "S", "y", "s", "t", "e", "m" >>,
     << "W", "i", "n", "d", "o", "w", "s", " ", "B", "a", "s", "i", "c", " ", "D", "a", "t", "a" >>,
     << "M", "i", "c", "r", "o", "s", "o", "f", "t", " ", "R", "e", "s", "e", "r", "v", "e", "d" >>,
     << "E", "x", "t", "e", "n", "d", "e", "d", " ", "P", "a", "r", "t", "i", "t", "i", "o", "n" >> >>

\* FormField.options by field index; a text field has none
FieldOptions(i) ==
  IF i = 0 THEN SchemeOptions ELSE IF i = 5 THEN TypeOptions ELSE << >>

\* FormField.fieldType by field index
FieldType(i) == IF i \in { 0, 5 } THEN "select" ELSE "text"

DigitChars == << "0", "1", "2", "3", "4", "5", "6", "7", "8", "9" >>

IsDigit(c) == \E d \in 1..Len(DigitChars) : DigitChars[d] = c

DigitVal(c) == (CHOOSE d \in 1..Len(DigitChars) : DigitChars[d] = c) - 1

\* fmt.Sprintf("%d", n) for the one- and two-digit numbers of the form
Sprintf(n) ==
  IF n < 10 THEN << DigitChars[n + 1] >>
  ELSE << DigitChars[(n \div 10) + 1], DigitChars[(n % 10) + 1] >>

\* the length of the longest prefix of str made of decimal digits
DigitPrefix(str) ==
  CHOOSE k \in 0..Len(str) :
    /\ \A i \in 1..k : IsDigit(str[i])
    /\ k = Len(str) \/ ~IsDigit(str[k + 1])

RECURSIVE DecimalValue(_, _)
DecimalValue(str, k) ==
  IF k = 0 THEN 0 ELSE 10 * DecimalValue(str, k - 1) + DigitVal(str[k])

\* the suffixes line 477 takes for a unit
UnitSuffixes == { "B", "K", "M", "G", "T", "b", "k", "m", "g", "t" }

\* strings.ToUpper on one unit letter
ToUpper(c) ==
  CASE c = "b" -> "B" [] c = "k" -> "K" [] c = "m" -> "M" [] c = "g" -> "G"
    [] c = "t" -> "T" [] OTHER -> c

\* what Sscanf("%d") makes of a Partition Number or Start LBA text: the
\* digits it starts with, an error when it starts with none
ScanNumber(str) ==
  IF str = << >> THEN TextEmpty
  ELSE IF DigitPrefix(str) = 0 THEN TextBad
  ELSE TextNum(DecimalValue(str, DigitPrefix(str)))

\* what lines 474-507 make of the Size or End LBA text: an end LBA when
\* Sscanf("%d") succeeds and the text ends in no unit letter, otherwise a
\* size when it is digits and then one unit
ScanSizeOrEnd(str) ==
  IF str = << >> THEN TextEmpty
  ELSE IF DigitPrefix(str) > 0 /\ str[Len(str)] \notin UnitSuffixes
  THEN TextNum(DecimalValue(str, DigitPrefix(str)))
  ELSE IF DigitPrefix(str) > 0 /\ DigitPrefix(str) = Len(str) - 1
  THEN TextSize(DecimalValue(str, DigitPrefix(str)), ToUpper(str[Len(str)]))
  ELSE TextBad

\* the scheme string as parsePartitionForm compares it
SchemeString(v) ==
  IF v = GPTText THEN "GPT" ELSE IF v = MBRText THEN "MBR" ELSE "other"

\* the PartitionCreateForm cf as parsePartitionForm reads its six values
ParsedForm(cf) ==
  [fields |->
     [scheme |-> SchemeString(cf.fields[0]),
      number |-> ScanNumber(cf.fields[1]),
      name |-> cf.fields[2],
      startLBA |-> ScanNumber(cf.fields[3]),
      sizeOrEnd |-> ScanSizeOrEnd(cf.fields[4]),
      type |-> cf.fields[5]],
   unusedPartition |-> cf.unusedPartition,
   isGPT |-> cf.isGPT,
   diskSize |-> cf.diskSize]

\* validateCreatePartitionForm on the form cf: the message it leaves in
\* errorMessage (<< >> when it accepts) and the isGPT it leaves in the form
validateCreatePartitionFormOutcome(cf) ==
  LET form == ParsedForm(cf)
      p == parsePartitionForm(form)
      unused == cf.unusedPartition
  IN IF sizeOrEndFieldEmpty(form)
     THEN [errorMessage |-> << "Size or End LBA is required" >>, isGPT |-> cf.isGPT]
     ELSE IF p.err # ""
     THEN [errorMessage |-> << "Invalid input: ", p.err >>, isGPT |-> p.isGPT]
     ELSE IF ~p.isGPT /\ (p.preview.Number < 1 \/ p.preview.Number > 4)
     THEN [errorMessage |-> << "MBR partition number must be 1-4" >>, isGPT |-> p.isGPT]
     ELSE IF p.preview.FirstLBA < unused.FirstLBA
     THEN [errorMessage |-> << "Start LBA is before unused space start" >>,
           isGPT |-> p.isGPT]
     ELSE IF unused.LastLBA > 0 /\ p.preview.LastLBA > unused.LastLBA
     THEN [errorMessage |-> << "End LBA exceeds unused space end" >>, isGPT |-> p.isGPT]
     ELSE [errorMessage |-> << >>, isGPT |-> p.isGPT]

\* the keys that are not printable characters
SpecialKeys ==
  { "Tab", "Shift+Tab", "Enter", "Esc", "Backspace", "Left", "Right", "Up", "Down" }

\* the printable characters typed
Runes == { "1", "7", "K" }

Keys == SpecialKeys \cup Runes

\* the longest text typed into a field
MaxText == 2

\* the number of key events delivered to one form
MaxKeys == 3

\* lines 320-339: a printable character on the selected field
typeRune(cf, c) ==
  LET i == cf.selectedField
      value == cf.fields[i]
      options == FieldOptions(i)
      found == { k \in 1..Len(options) : options[k] = value }
      currentIdx == IF found = {} THEN -1 ELSE (CHOOSE k \in found : TRUE) - 1
      selected ==
        IF currentIdx >= 0 THEN options[((currentIdx + 1) % Len(options)) + 1]
        ELSE IF Len(options) > 0 THEN options[1]
        ELSE value
  IN IF FieldType(i) = "text"
     THEN [cf EXCEPT !.fields[i] = Append(value, c)]
     ELSE [cf EXCEPT !.fields[i] = selected]

\* lines 292-298: Backspace on the selected field
backspace(cf) ==
  LET value == cf.fields[cf.selectedField]
  IN IF Len(value) > 0
     THEN [cf EXCEPT !.fields[cf.selectedField] = SubSeq(value, 1, Len(value) - 1)]
     ELSE cf

\* handleCreatePartitionFormKey on the tuiState s
handleCreatePartitionFormKey(s, key) ==
  LET cf == s.createPartitionForm
      v == validateCreatePartitionFormOutcome(cf)
      validated == [cf EXCEPT !.isGPT = v.isGPT]
  IN CASE key = "Shift+Tab" ->
            [s EXCEPT !.createPartitionForm.selectedField =
                        IF cf.selectedField > 0 THEN cf.selectedField - 1
                        ELSE FieldCount - 1]
       [] key = "Tab" ->
            [s EXCEPT !.createPartitionForm.selectedField =
                        IF cf.selectedField < FieldCount - 1 THEN cf.selectedField + 1
                        ELSE 0]
       [] key = "Enter" ->
            IF v.errorMessage = << >>
            THEN [s EXCEPT !.createPartitionForm = validated,
                           !.showCreatePartitionConfirm = TRUE,
                           !.showCreatePartitionForm = FALSE]
            ELSE [s EXCEPT !.createPartitionForm = validated,
                           !.showError = TRUE, !.errorMessage = v.errorMessage]
       [] key = "Esc" ->
            [s EXCEPT !.showCreatePartitionForm = FALSE,
                      !.createPartitionForm = NoForm.createPartitionForm]
       [] key = "Backspace" -> [s EXCEPT !.createPartitionForm = backspace(cf)]
       [] key = "Up" ->
            [s EXCEPT !.createPartitionForm.selectedField =
                        IF cf.selectedField > 0 THEN cf.selectedField - 1
                        ELSE cf.selectedField]
       [] key = "Down" ->
            [s EXCEPT !.createPartitionForm.selectedField =
                        IF cf.selectedField < FieldCount - 1 THEN cf.selectedField + 1
                        ELSE cf.selectedField]
       [] key \in Runes -> [s EXCEPT !.createPartitionForm = typeRune(cf, key)]
       [] OTHER -> s

\* initCreatePartitionForm lines 230-254 on the listed rows and the gap
OpenedForm(rows, unusedPart) ==
  [fields |->
     [i \in 0..(FieldCount - 1) |->
        CASE i = 0 -> GPTText
          [] i = 1 -> Sprintf(IF Len(rows) > 0 THEN maxNumber(rows) + 1 ELSE 1)
          [] i = 2 -> << >>
          [] i = 3 -> Sprintf(unusedPart.FirstLBA)
          [] i = 4 -> << >>
          [] OTHER -> TypeOptions[1]],
   selectedField |-> 0,
   isGPT |-> TRUE,
   unusedPartition |-> unusedPart,
   diskSize |-> DiskBytes]

\* the devices whose list the form is opened from
FormDisks == { GPTDisk(<< TRUE, FALSE, FALSE >>, "ok") }

\* texts a user has typed into the fields of a form not yet submitted
TypedTexts(i) ==
  CASE i = 1 -> { << "1" >> }
    [] i = 2 -> { << "K" >> }
    [] i = 3 -> { << >> }
    [] i = 4 -> { << "7" >>, << "1", "K" >> }
    [] OTHER -> {}

\* the forms reached from OpenedForm by keys other than Enter: any field
\* selected, a scheme chosen, texts typed; isGPT is still as the form was
\* opened
EditedForms(rows, unusedPart) ==
  LET o == OpenedForm(rows, unusedPart)
      texts(i) == TypedTexts(i) \cup { o.fields[i] }
  IN { [o EXCEPT !.selectedField = sel,
                 !.fields = [i \in 0..(FieldCount - 1) |->
                               CASE i = 0 -> scheme
                                 [] i = 1 -> number
                                 [] i = 2 -> name
                                 [] i = 3 -> start
                                 [] i = 4 -> size
                                 [] OTHER -> o.fields[5]]] :
         sel \in 0..(FieldCount - 1),
         scheme \in { SchemeOptions[k] : k \in 1..Len(SchemeOptions) },
         number \in texts(1), name \in texts(2), start \in texts(3), size \in texts(4) }

InitForm ==
  /\ disk \in FormDisks
  /\ partitions = getPartitionsData(disk, DiskBytes, {}).rows
  /\ prev = disk
  /\ last = NoOp
  /\ steps = 0
  /\ \E unusedPart \in Gaps(disk) :
       \E cf \in EditedForms(partitions, unusedPart) :
         tui = [NoForm EXCEPT !.showCreatePartitionForm = TRUE,
                              !.createPartitionForm = cf]

\* one key event delivered to the open form
handleCreatePartitionFormKeyCall ==
  /\ steps < MaxKeys
  /\ tui.showCreatePartitionForm
  /\ \E key \in Keys :
       /\ key \in Runes /\ FieldType(tui.createPartitionForm.selectedField) = "text"
            => Len(tui.createPartitionForm.fields[tui.createPartitionForm.selectedField])
                 < MaxText
       /\ tui' = handleCreatePartitionFormKey(tui, key)
       /\ last' = [NoOp EXCEPT !.op = "handleCreatePartitionFormKey", !.out = << key >>]
  /\ steps' = steps + 1
  /\ UNCHANGED << disk, partitions, prev >>

NextForm == handleCreatePartitionFormKeyCall

SpecForm == InitForm /\ [][NextForm]_vars

\* the verdict of the Enter just handled
Submitted == last.op = "handleCreatePartitionFormKey" /\ last.out = << "Enter" >>

Accepted == tui.showCreatePartitionConfirm

\* the form as a newly opened form holding the same values
Fresh(cf) == [cf EXCEPT !.isGPT = TRUE]

\* the conditions the form is to be accepted on: the number and both LBA
\* texts parse, the range lies in the gap, an MBR number is in 1..4
Acceptable(cf) ==
  LET p == parsePartitionForm(ParsedForm(cf))
  IN /\ p.err = ""
     /\ p.preview.FirstLBA >= cf.unusedPartition.FirstLBA
     /\ p.preview.LastLBA <= cf.unusedPartition.LastLBA
     /\ p.isGPT \/ (p.preview.Number >= 1 /\ p.preview.Number <= 4)

RequiredRejections ==
  { << "Size or End LBA is required" >>,
    << "Invalid input: ", "size or end LBA is required" >> }

\* C29: the verdict of a submitted form is a function of its current field
\* values and its gap: every acceptable form is accepted, whatever its
\* Partition Name and whatever was submitted before; the verdict and the
\* message are those a newly opened form with the same values gets, and
\* those it gets with another name; a form rejected because the
\* Size or End LBA is required has that field empty, and a form with that
\* field empty is rejected.
C29_VerdictFromFieldValues ==
  Submitted =>
    LET cf == tui.createPartitionForm
        fresh == validateCreatePartitionFormOutcome(Fresh(cf))
    IN /\ Acceptable(cf) => Accepted
       /\ Accepted <=> (fresh.errorMessage = << >>)
       /\ ~Accepted => tui.errorMessage = fresh.errorMessage
       /\ \A name \in { << >>, << "K" >> } :
            Accepted <=>
              (validateCreatePartitionFormOutcome(
                 Fresh([cf EXCEPT !.fields[2] = name])).errorMessage = << >>)
       /\ (~Accepted /\ tui.errorMessage \in RequiredRejections) => cf.fields[4] = << >>
       /\ cf.fields[4] = << >> => ~Accepted

\* C30: while the form is open the selected field is one of its fields and
\* each select field holds one of its options.
C30_SelectionAndOptionsInRange ==
  tui.showCreatePartitionForm =>
    LET cf == tui.createPartitionForm
    IN /\ cf.selectedField \in 0..(FieldCount - 1)
       /\ \A i \in { j \in 0..(FieldCount - 1) : FieldType(j) = "select" } :
            \E k \in 1..Len(FieldOptions(i)) : FieldOptions(i)[k] = cf.fields[i]
====
